---------------------------- MODULE Spec2Model ----------------------------
(***************************************************************************)
(* Dominant-colour extraction of extract-colors.c: the pixel sampler of    *)
(* extract_colors_core, kmeans_pp_init, the serial path of kmeans_run and  *)
(* merge_colors, as one state machine (Spec), and merge_colors on          *)
(* arbitrary cluster lists (SpecMerge).                                    *)
(*                                                                         *)
(* Arithmetic.  The program computes in float/double.  Here a colour       *)
(* channel in [0,1] is the integer c standing for c/Q, where Q is a        *)
(* multiple of every cluster weight the bounds allow, so that every mean   *)
(* of samples is exact; hue, saturation, lightness and area are exact      *)
(* rationals [n |-> num, d |-> den].  IEEE rounding is modelled only where *)
(* a definition says so.                                                   *)
(***************************************************************************)
EXTENDS Integers, Sequences, FiniteSets, TLC

\* ------------------------------------------------------------------ bounds
\* An image holds at most MaxArea pixels (w * h <= MaxArea).
MaxArea == 3
\* merge_colors alone is run on lists of at most MergeMaxK clusters, each of
\* weight at most MergeMaxWeight.
MergeMaxK == 3
MergeMaxWeight == 2
\* rgb_to_hsl alone is run in binary floating point of MantBits significant
\* bits (a double has 53) on the values of [0,1] whose exponent is at least
\* -FloatMaxExp.
MantBits == 3
FloatMaxExp == 3
\* get_pixels_buffer is called with sizes up to MaxBufSize, and realloc
\* returns NULL or one of the addresses 1..MaxBufAddr.
MaxBufSize == 6
MaxBufAddr == 3

\* Widths and heights of the images the sampling grid is checked on.
StrideMaxSide == 5
\* The StrBuf is run on appends of at most SbMaxExtra bytes, up to a length
\* of SbMaxLen.
SbMaxExtra == 3
SbMaxLen == 60

\* Threads of the OpenMP build's parallel loop.
OmpThreads == 2

\* ------------------------------------------------------- program constants
\* kmeans_run(samples, n, clusters, K, 12): the iteration cap.
IterCap == 12
\* Defaults of main(): pixels, alphaThreshold, maxColors.
DefaultPixels == 64000
DefaultAlphaThreshold == 250
DefaultMaxColors == 16
\* The greatest value of an 8-bit channel.
ChannelMax == 255
\* find_gamut_safe_chroma: for (int i = 0; i < 30; i++).
BisectSteps == 30
\* #define EXTRACT_MAX_OUT_COLORS 64
EXTRACT_MAX_OUT_COLORS == 64

\* ----------------------------------------------------------------- numbers
Abs(x) == IF x < 0 THEN -x ELSE x
Max2(a, b) == IF a > b THEN a ELSE b
Min2(a, b) == IF a < b THEN a ELSE b

RECURSIVE Gcd(_, _)
Gcd(a, b) == IF b = 0 THEN a ELSE Gcd(b, a % b)

RECURSIVE LcmUpTo(_)
LcmUpTo(k) == IF k <= 1 THEN 1 ELSE LET p == LcmUpTo(k - 1) IN (p * k) \div Gcd(p, k)

\* The channel resolution: 1.0 is Q.  5 divides it so that the channel
\* values 0, 51, 102, ..., 255 convert exactly; every sample count of the
\* images below divides it so that means of samples are exact.
Q == 5 * LcmUpTo(Max2(MaxArea, 4))

\* Rationals n/d with d > 0.
Rat(num, den) == [n |-> num, d |-> den]
RatLT(a, b) == a.n * b.d < b.n * a.d
RatLE(a, b) == a.n * b.d <= b.n * a.d
RatEQ(a, b) == a.n * b.d = b.n * a.d
RatAbsDiff(a, b) == Rat(Abs(a.n * b.d - b.n * a.d), a.d * b.d)

\* ------------------------------------------------------------------ inputs
\* RGBA8 pixels the images are drawn from: opaque red, opaque blue, a dark
\* red (close to red in RGB) whose alpha is one above the default threshold,
\* and a blue whose alpha is the default threshold.
PxRed == [r |-> ChannelMax, g |-> 0, b |-> 0, a |-> ChannelMax]
PxBlue == [r |-> 0, g |-> 0, b |-> ChannelMax, a |-> ChannelMax]
PxDarkRed == [r |-> 204, g |-> 0, b |-> 0, a |-> DefaultAlphaThreshold + 1]
PxFaintBlue == [r |-> 0, g |-> 0, b |-> ChannelMax, a |-> DefaultAlphaThreshold]
PxWhite == [r |-> ChannelMax, g |-> ChannelMax, b |-> ChannelMax, a |-> ChannelMax]
PixelKinds == {PxRed, PxBlue, PxDarkRed, PxFaintBlue}

Shapes == {s \in (1..MaxArea) \X (1..MaxArea) : s[1] * s[2] <= MaxArea}

\* Image: width, height and the row-major RGBA buffer (index (y*w + x)).
ImagesOf(w, h) == {[width |-> w, height |-> h, rgba |-> f] : f \in [0..(w * h - 1) -> PixelKinds]}
White2x2 == [width |-> 2, height |-> 2, rgba |-> [i \in 0..3 |-> PxWhite]]
Images == UNION {ImagesOf(s[1], s[2]) : s \in Shapes}

\* Arguments extract_colors_core refuses: a width or a height that is not
\* positive (over a buffer of one pixel), and a null pixel pointer.
BadImages ==
  {[width |-> wh[1], height |-> wh[2], rgba |-> [i \in {0} |-> PxRed]] :
     wh \in {<<0, 1>>, <<1, 0>>, <<-1, 2>>, <<2, -1>>, <<0, 0>>}}
  \cup {[width |-> 1, height |-> 1, rgba |-> [i \in {} |-> 0]]}

\* Options.  distance, satDist, lightDist, hueDist are rationals; the default
\* hueDist 0.083333333 is taken as 1/12.
DefaultDistance == Rat(22, 100)
DefaultSatDist == Rat(1, 5)
DefaultLightDist == Rat(1, 5)
DefaultHueDist == Rat(1, 12)
PixelsSet == {1, DefaultPixels}
AlphaThresholdSet == {DefaultAlphaThreshold, ChannelMax}
MaxColorsSet == {0, 1, 2, 3}
DistanceSet == {DefaultDistance}
OptionsSet ==
  {[pixels |-> p, distance |-> dd, satDist |-> DefaultSatDist, lightDist |-> DefaultLightDist,
    hueDist |-> DefaultHueDist, alphaThreshold |-> at, maxColors |-> mc] :
     p \in PixelsSet, dd \in DistanceSet, at \in AlphaThresholdSet, mc \in MaxColorsSet}
\* The defaults of main().
DefaultOptions ==
  [pixels |-> DefaultPixels, distance |-> DefaultDistance, satDist |-> DefaultSatDist,
   lightDist |-> DefaultLightDist, hueDist |-> DefaultHueDist,
   alphaThreshold |-> DefaultAlphaThreshold, maxColors |-> DefaultMaxColors]


\* --------------------------------------------------------- pure functions
\* (mutant) the channel normalised by 256 instead of 255.
ToUnit256(v) == (v * Q) \div (ChannelMax + 1)

\* samples[n].r = (float)r * (1.0f / 255.0f): an 8-bit channel on the Q grid.
ToUnit(v) == (v * Q) \div ChannelMax

RGBf(r, g, b) == [r |-> r, g |-> g, b |-> b]
SampleOf(p) == RGBf(ToUnit(p.r), ToUnit(p.g), ToUnit(p.b))

\* rgb_dist2_raw: squared distance, not normalised (in 1/Q^2).
rgb_dist2_raw(a, b) ==
  LET dr == a.r - b.r
      dg == a.g - b.g
      db == a.b - b.b
  IN dr * dr + dg * dg + db * db

\* (mutant) rgb_to_hsl without the test maxv != minv.
rgb_to_hsl_unguarded(r, g, b) ==
  LET maxv == Max2(r, Max2(g, b))
      minv == Min2(r, Min2(g, b))
      lval == Rat(maxv + minv, 2 * Q)
      d == maxv - minv
      sval == IF maxv + minv > Q THEN Rat(d, 2 * Q - maxv - minv) ELSE Rat(d, maxv + minv)
      h6 == IF maxv = r THEN Rat((g - b) + (IF g < b THEN 6 * d ELSE 0), d)
            ELSE IF maxv = g THEN Rat((b - r) + 2 * d, d)
            ELSE Rat((r - g) + 4 * d, d)
  IN [h |-> Rat(h6.n, 6 * h6.d), s |-> sval, l |-> lval]

\* rgb_to_hsl: hue, saturation, lightness of (r, g, b) / Q, as rationals;
\* a quotient is the rational whose denominator is the divisor.
rgb_to_hsl(r, g, b) ==
  LET maxv == Max2(r, Max2(g, b))
      minv == Min2(r, Min2(g, b))
      lval == Rat(maxv + minv, 2 * Q)
      d == maxv - minv
      sval == IF maxv + minv > Q THEN Rat(d, 2 * Q - maxv - minv) ELSE Rat(d, maxv + minv)
      h6 == IF maxv = r THEN Rat((g - b) + (IF g < b THEN 6 * d ELSE 0), d)
            ELSE IF maxv = g THEN Rat((b - r) + 2 * d, d)
            ELSE Rat((r - g) + 4 * d, d)
  IN IF maxv # minv
       THEN [h |-> Rat(h6.n, 6 * h6.d), s |-> sval, l |-> lval]
       ELSE [h |-> Rat(0, 1), s |-> Rat(0, 1), l |-> lval]

\* ---- rgb_to_hsl in rounded arithmetic
RECURSIVE Pow2(_)
Pow2(e) == IF e <= 0 THEN 1 ELSE 2 * Pow2(e - 1)

\* A rational in lowest terms; a denominator 0 (the result of a division
\* by zero, infinite or NaN) is kept.
RatNorm(num, den) ==
  LET g == Gcd(Abs(num), den)
  IN IF den = 0 THEN Rat(num, 0)
     ELSE IF num = 0 THEN Rat(0, 1) ELSE Rat(num \div g, den \div g)

\* Round to nearest, ties to even, of num/den >= 0 to an integer.
RoundHalfEven(num, den) ==
  LET q == num \div den
      r == num % den
  IN IF 2 * r < den THEN q
     ELSE IF 2 * r > den THEN q + 1
     ELSE IF q % 2 = 0 THEN q ELSE q + 1

\* The nearest floating-point value (MantBits significant bits, ties to
\* even, exponent unbounded) of num/den > 0.
RECURSIVE FRoundPos(_, _)
FRoundPos(num, den) ==
  IF num >= Pow2(MantBits) * den
    THEN LET r == FRoundPos(num, 2 * den) IN RatNorm(2 * r.n, r.d)
  ELSE IF num < Pow2(MantBits - 1) * den
    THEN LET r == FRoundPos(2 * num, den) IN RatNorm(r.n, 2 * r.d)
  ELSE Rat(RoundHalfEven(num, den), 1)

\* The rounding every double operation ends with.
fl(v) ==
  IF v.d = 0 THEN v
  ELSE IF v.n = 0 THEN Rat(0, 1)
  ELSE IF v.n < 0 THEN LET r == FRoundPos(-v.n, v.d) IN Rat(-r.n, r.d)
  ELSE FRoundPos(v.n, v.d)

FAdd(a, b) == fl(RatNorm(a.n * b.d + b.n * a.d, a.d * b.d))
FSub(a, b) == fl(RatNorm(a.n * b.d - b.n * a.d, a.d * b.d))
FMul(a, b) == fl(RatNorm(a.n * b.n, a.d * b.d))
FDiv(a, b) ==
  IF b.n = 0 \/ b.d = 0 \/ a.d = 0 THEN Rat(a.n, 0)
  ELSE IF b.n < 0 THEN fl(RatNorm(-(a.n * b.d), a.d * (-b.n)))
  ELSE fl(RatNorm(a.n * b.d, a.d * b.n))

\* The floating-point values of [0,1] with exponent at least -FloatMaxExp.
FloatUnit ==
  {Rat(0, 1), Rat(1, 1)} \cup
  {RatNorm(mant, Pow2(MantBits + e)) :
     mant \in Pow2(MantBits - 1)..(Pow2(MantBits) - 1), e \in 0..FloatMaxExp}

\* rgb_to_hsl as the build computes it: every operation on doubles rounds.
rgb_to_hsl_double(r, g, b) ==
  LET fmax(u, v) == IF RatLT(u, v) THEN v ELSE u
      fmin(u, v) == IF RatLT(v, u) THEN v ELSE u
      maxv == fmax(r, fmax(g, b))
      minv == fmin(r, fmin(g, b))
      lval == FMul(Rat(1, 2), FAdd(maxv, minv))
      d == FSub(maxv, minv)
      sval == IF RatLT(Rat(1, 2), lval)
                THEN FDiv(d, FSub(FSub(Rat(2, 1), maxv), minv))
                ELSE FDiv(d, FAdd(maxv, minv))
      hval == IF RatEQ(maxv, r)
                THEN FAdd(FDiv(FSub(g, b), d), IF RatLT(g, b) THEN Rat(6, 1) ELSE Rat(0, 1))
              ELSE IF RatEQ(maxv, g) THEN FAdd(FDiv(FSub(b, r), d), Rat(2, 1))
              ELSE FAdd(FDiv(FSub(r, g), d), Rat(4, 1))
  IN IF ~RatEQ(maxv, minv)
       THEN [h |-> FDiv(hval, Rat(6, 1)), s |-> sval, l |-> lval]
       ELSE [h |-> Rat(0, 1), s |-> Rat(0, 1), l |-> lval]

\* hue_arc_dist: the shorter arc between two hues on the circle.
hue_arc_dist(h1, h2) ==
  LET d == RatAbsDiff(h1, h2)
  IN IF 2 * d.n > d.d THEN Rat(d.d - d.n, d.d) ELSE d

\* The stride of extract_colors_core: 1, or (int)ceil(sqrt(total/pixels))
\* when total > pixels > 0, the least s with s*s*pixels >= total.
RECURSIVE CeilSqrtRatio(_, _, _)
CeilSqrtRatio(total, pixels, s) ==
  IF s * s * pixels >= total THEN s ELSE CeilSqrtRatio(total, pixels, s + 1)

\* (mutant) the stride rounded down instead of up.
StepOfFloor(w, h, pixels) ==
  LET total == w * h
  IN IF total > pixels /\ pixels > 0
       THEN Max2(1, CeilSqrtRatio(total, pixels, 1) - 1) ELSE 1

StepOf(w, h, pixels) ==
  LET total == w * h
  IN IF total > pixels /\ pixels > 0 THEN Max2(1, CeilSqrtRatio(total, pixels, 1)) ELSE 1

\* (mutant) the capacity without the + 1 of either factor.
CapOfExact(w, h, step) == (w \div step) * (h \div step)

\* cap = (w / step + 1) * (h / step + 1), the size of samples[].
CapOf(w, h, step) == ((w \div step) + 1) * ((h \div step) + 1)

\* ------------------------------------------------------------------- state
VARIABLES
  im,        \* the Image handed to extract_colors_core
  opt,       \* the Options
  pc,        \* position in extract_colors_core and its callees
  x, y,      \* the sampling loops' position
  samples,   \* samples[0..n-1], RGBf on the Q grid
  n,         \* number of samples written
  K,         \* cluster count
  clusters,  \* clusters[0..K-1]: [color, weight]
  dist2,     \* kmeans_pp_init: squared distance to the nearest chosen centre
  k,         \* kmeans_pp_init: next centre to choose
  assign,    \* kmeans_run: assign[i], -1 before the first pass
  sr, sg, sb, \* kmeans_run: per-cluster channel sums
  bestd2,    \* kmeans_run: squared distance of sample i to its centre
  it,        \* kmeans_run: iteration counter
  changed,   \* kmeans_run: the iteration's changed flag
  sorted,    \* merge_colors: the clusters after qsort
  mi,        \* merge_colors: index of the next sorted cluster
  acc,       \* merge_colors: the aggregates acc[0..m-1]
  m,         \* merge_colors: number of aggregates
  totalW,    \* the totalWeight passed to merge_colors
  ret,       \* return value of extract_colors_core (-1 while running)
  out,       \* the JSON array printed by extract_colors_from_image
  rgbIn,     \* rgb_to_hsl on its own: the arguments r, g, b
  hslOut,    \* rgb_to_hsl on its own: the results *h, *s, *l
  caller,    \* who called extract_colors_core: "main" or "js"
  outAgg,    \* the caller's agg, which outAgg points to
  outM,      \* the caller's m, which outM points to
  stored,    \* which of *outAgg, *outM extract_colors_core has assigned
  allocFailed, \* the allocation that returned NULL, "none" if none did
  g_out_buf, \* the wasm result buffer, as written by pack_results_to_out
  g_pixels_buf, \* get_pixels_buffer: the buffer's address, 0 for NULL
  g_pixels_cap, \* get_pixels_buffer: the buffer's capacity
  pixReq,    \* get_pixels_buffer: the size argument of the last call
  pixRet,    \* get_pixels_buffer: the value the last call returned
  gamutIn,   \* find_gamut_safe_chroma: the chroma scales in gamut for (L, C, h)
  bisLo, bisHi, \* find_gamut_safe_chroma: lo and hi
  bisI,      \* find_gamut_safe_chroma: the loop counter i
  bisRet,    \* find_gamut_safe_chroma: the scale of C returned, -1 before
  ompNext,   \* OpenMP build: ompNext[t], the next sample of thread t's chunk
  ompChanged, \* OpenMP build: thread t's private copy of changed_any
  serial,    \* (ghost) what the serial build makes of the iteration under way
  strbuf     \* squircle_svg.c: the StrBuf, with what was written to its block

vars == <<im, opt, pc, x, y, samples, n, K, clusters, dist2, k, assign, sr, sg, sb,
          bestd2, it, changed, sorted, mi, acc, m, totalW, ret, out, rgbIn, hslOut,
          caller, outAgg, outM, stored, allocFailed, g_out_buf,
          g_pixels_buf, g_pixels_cap, pixReq, pixRet, gamutIn, bisLo, bisHi, bisI, bisRet,
          ompNext, ompChanged, serial, strbuf>>

sampleVars == <<x, y, samples, n>>
ppVars == <<dist2, k>>
runVars == <<assign, sr, sg, sb, bestd2, it, changed>>
mergeVars == <<sorted, mi, acc, m, totalW>>
hslVars == <<rgbIn, hslOut>>

Empty == [i \in {} |-> 0]
callVars == <<caller, outAgg, outM, stored, allocFailed, g_out_buf>>
pixVars == <<g_pixels_buf, g_pixels_cap, pixReq, pixRet>>
gamutVars == <<gamutIn, bisLo, bisHi, bisI, bisRet>>
ompVars == <<ompNext, ompChanged, serial>>
sideVars == <<hslVars, pixVars, gamutVars, ompVars, strbuf>>

\* static uint8_t *g_pixels_buf = NULL; static size_t g_pixels_cap = 0;
\* no call of get_pixels_buffer yet.
PixIdle == g_pixels_buf = 0 /\ g_pixels_cap = 0 /\ pixReq = 0 /\ pixRet = 0

\* No parallel loop is running.
OmpIdle == ompNext = Empty /\ ompChanged = Empty /\ serial = Empty
StrBufIdle == strbuf = Empty

\* find_gamut_safe_chroma is not running.
GamutIdle == gamutIn = Empty /\ bisLo = 0 /\ bisHi = 0 /\ bisI = 0 /\ bisRet = -1

\* A null pointer to pixels; the caller's ColorAgg *agg, NULL or a list.
NullPtr == Empty
NullAgg == [null |-> TRUE, agg |-> Empty]
AggPtr(a) == [null |-> FALSE, agg |-> a]

\* The callers' locals before the call (ColorAgg *agg = NULL; int m = 0),
\* no allocation failed, the result buffer zeroed.
CallIdle(who) ==
  /\ caller = who
  /\ outAgg = NullAgg /\ outM = 0 /\ stored = {}
  /\ allocFailed = "none"
  /\ g_out_buf = Empty

Step == StepOf(im.width, im.height, opt.pixels)
PixelAt(px, py) == im.rgba[py * im.width + px]

\* extract_colors_core up to the sampling loop (w > 0, h > 0, pointers set).
InitCall(image, options, who) ==
  /\ im = image
  /\ opt = options
  /\ pc = "entry"
  /\ x = 0 /\ y = 0
  /\ samples = Empty /\ n = 0
  /\ K = 0 /\ clusters = Empty
  /\ dist2 = Empty /\ k = 0
  /\ assign = Empty /\ sr = Empty /\ sg = Empty /\ sb = Empty /\ bestd2 = Empty
  /\ it = 0 /\ changed = 0
  /\ sorted = Empty /\ mi = 0 /\ acc = Empty /\ m = 0 /\ totalW = 0
  /\ ret = -1
  /\ out = Empty
  /\ rgbIn = Empty /\ hslOut = Empty
  /\ PixIdle /\ GamutIdle /\ OmpIdle /\ StrBufIdle
  /\ CallIdle(who)

InitCore(image, options) == InitCall(image, options, "main")

\* Every image of the bounds under every option set, and the all-white
\* 2x2 image under the default options.
Init ==
  \/ \E image \in Images, options \in OptionsSet : InitCore(image, options)
  \/ InitCore(White2x2, DefaultOptions)

\* (mutant) the argument check without the test of the height.
BadArgsNoHeight(image) == image.width <= 0 \/ image.rgba = NullPtr

\* extract_colors_core: the argument check (w <= 0 || h <= 0 || !px ..).
BadArgs(image) == image.width <= 0 \/ image.height <= 0 \/ image.rgba = NullPtr

\* extract_colors_core: entry.  Bad arguments return 0 at once; otherwise
\* the stride is computed, samples[] allocated and the loops begin.
Enter ==
  /\ pc = "entry"
  /\ IF BadArgs(im)
       THEN pc' = "done" /\ ret' = 0
       ELSE pc' = "sample" /\ ret' = ret
  /\ UNCHANGED <<im, opt, sampleVars, K, clusters, ppVars, runVars, mergeVars, out,
                 callVars, sideVars>>

\* (mutant) the filter with the comparison off by one.
AlphaSkippedStrict(p, options) == p.a < options.alphaThreshold

\* The alpha filter of the sampling loop: the pixel is skipped when
\* a <= opt->alphaThreshold.
AlphaSkipped(p, options) == p.a <= options.alphaThreshold

\* (mutant) the empty sample set is not told apart.
NoSamplesNever(cnt) == FALSE

\* extract_colors_core: if (n == 0), the empty result.
NoSamples(cnt) == cnt = 0

\* One pass of the inner sampling loop body: pixel (x, y) is skipped or
\* appended; then x, y advance by step, and past the last row the sample
\* count decides between the empty result and clustering.
SamplePixel ==
  /\ pc = "sample"
  /\ LET p == PixelAt(x, y)
         skip == AlphaSkipped(p, opt)
         n2 == IF skip THEN n ELSE n + 1
         x2 == IF x + Step < im.width THEN x + Step ELSE 0
         y2 == IF x + Step < im.width THEN y ELSE y + Step
     IN /\ samples' = IF skip THEN samples
                      ELSE [i \in 0..n |-> IF i = n THEN SampleOf(p) ELSE samples[i]]
        /\ n' = n2
        /\ x' = x2 /\ y' = y2
        /\ IF y2 < im.height
             THEN /\ pc' = "sample" /\ ret' = ret
                  /\ UNCHANGED <<outAgg, outM, stored>>
             ELSE IF NoSamples(n2)
               THEN /\ pc' = "done" /\ ret' = 1
                    /\ outAgg' = NullAgg /\ outM' = 0 /\ stored' = {"outAgg", "outM"}
               ELSE /\ pc' = "clusters" /\ ret' = ret
                    /\ UNCHANGED <<outAgg, outM, stored>>
  /\ UNCHANGED <<im, opt, K, clusters, ppVars, runVars, mergeVars, out, caller, allocFailed,
                 g_out_buf, sideVars>>

\* (mutant) K = opt->maxColors without the clamp to n.
KOfNoClamp(maxColors, cnt) == IF maxColors <= 0 THEN 1 ELSE maxColors

\* K = opt->maxColors, clamped to n, and to 1 when that is <= 0.
KOf(maxColors, cnt) ==
  LET k1 == IF maxColors > cnt THEN cnt ELSE maxColors
  IN IF k1 <= 0 THEN 1 ELSE k1

Cluster(c, w) == [color |-> c, weight |-> w]

\* kmeans_pp_init, the refresh of dist2 after a centre is chosen.
Dist2After(d2, c) ==
  [i \in 0..(n - 1) |-> LET d == rgb_dist2_raw(samples[i], c) IN IF d < d2[i] THEN d ELSE d2[i]]

RECURSIVE SumTo(_, _)
SumTo(f, last) == IF last < 0 THEN 0 ELSE f[last] + SumTo(f, last - 1)

\* kmeans_pp_init, the scan for the drawn centre: the first i whose
\* cumulative dist2 reaches r, and 0 when none does.
RECURSIVE ScanFrom(_, _, _, _)
ScanFrom(d2, r, i, accum) ==
  IF i >= n THEN 0
  ELSE IF accum + d2[i] >= r THEN i
  ELSE ScanFrom(d2, r, i + 1, accum + d2[i])

PickIdx(d2, r) == ScanFrom(d2, r, 0, 0)

\* The values r = rand()/RAND_MAX * sum that the scan can tell apart: 0
\* (rand() = 0), sum (rand() = RAND_MAX) and the cumulative sums between.
DrawSet(d2) == {0} \cup {SumTo(d2, i) : i \in 0..(n - 1)}

\* extract_colors_core from the computation of K to the first centre of
\* kmeans_pp_init: first = rand() % n, dist2 against clusters[0].
PPFirst ==
  /\ pc = "clusters"
  /\ \E first \in 0..(n - 1) :
       /\ K' = KOf(opt.maxColors, n)
       /\ clusters' = [j \in {0} |-> Cluster(samples[first], 0)]
       /\ dist2' = [i \in 0..(n - 1) |-> rgb_dist2_raw(samples[i], samples[first])]
       /\ k' = 1
       /\ pc' = "pp_next"
  /\ UNCHANGED <<im, opt, sampleVars, runVars, mergeVars, ret, out, callVars, sideVars>>

\* kmeans_pp_init, one pass of the loop over k = 1..K-1, and past it the
\* start of kmeans_run (assign[] = -1, zeroed sums).
PPNext ==
  /\ pc = "pp_next"
  /\ IF k < K
       THEN /\ LET sum == SumTo(dist2, n - 1)
               IN IF sum <= 0
                    THEN \E j \in 0..(n - 1) :
                           /\ clusters' = [c \in 0..k |-> IF c = k THEN Cluster(samples[j], 0)
                                                                 ELSE clusters[c]]
                           /\ dist2' = dist2
                    ELSE \E r \in DrawSet(dist2) :
                           LET idx == PickIdx(dist2, r)
                           IN /\ clusters' = [c \in 0..k |-> IF c = k THEN Cluster(samples[idx], 0)
                                                                    ELSE clusters[c]]
                              /\ dist2' = Dist2After(dist2, samples[idx])
            /\ k' = k + 1
            /\ UNCHANGED <<pc, runVars>>
       ELSE /\ pc' = "assign"
            /\ assign' = [i \in 0..(n - 1) |-> -1]
            /\ sr' = [c \in 0..(K - 1) |-> 0]
            /\ sg' = [c \in 0..(K - 1) |-> 0]
            /\ sb' = [c \in 0..(K - 1) |-> 0]
            /\ bestd2' = bestd2
            /\ it' = 0 /\ changed' = 0
            /\ UNCHANGED <<clusters, ppVars>>
  /\ UNCHANGED <<im, opt, sampleVars, K, mergeVars, ret, out, callVars, sideVars>>

\* kmeans_run, the nearest centre of one sample: the scan over k keeps the
\* first centre of least squared distance (strict <, from best = 1e300).
RECURSIVE NearestFrom(_, _, _, _, _)
NearestFrom(s, cl, c, best, bi) ==
  IF c >= K THEN [bi |-> bi, best |-> best]
  ELSE LET d2s == rgb_dist2_raw(s, cl[c].color)
       IN IF d2s < best THEN NearestFrom(s, cl, c + 1, d2s, c)
          ELSE NearestFrom(s, cl, c + 1, best, bi)

Nearest(s, cl) == NearestFrom(s, cl, 0, 3 * Q * Q + 1, 0)

\* (mutant) the assignment that never raises changed.
AssignOneSilent(st, i) ==
  LET near == Nearest(samples[i], clusters)
      bi == near.bi
  IN [assign |-> [st.assign EXCEPT ![i] = bi],
      sr |-> [st.sr EXCEPT ![bi] = @ + samples[i].r],
      sg |-> [st.sg EXCEPT ![bi] = @ + samples[i].g],
      sb |-> [st.sb EXCEPT ![bi] = @ + samples[i].b],
      w |-> [st.w EXCEPT ![bi] = @ + 1],
      bestd2 |-> [j \in 0..i |-> IF j = i THEN near.best ELSE st.bestd2[j]],
      changed |-> st.changed]

\* kmeans_run, serial path: the assignment of sample i on the running state
\* st = [assign, sr, sg, sb, w, bestd2, changed].
AssignOne(st, i) ==
  LET near == Nearest(samples[i], clusters)
      bi == near.bi
  IN [assign |-> [st.assign EXCEPT ![i] = bi],
      sr |-> [st.sr EXCEPT ![bi] = @ + samples[i].r],
      sg |-> [st.sg EXCEPT ![bi] = @ + samples[i].g],
      sb |-> [st.sb EXCEPT ![bi] = @ + samples[i].b],
      w |-> [st.w EXCEPT ![bi] = @ + 1],
      bestd2 |-> [j \in 0..i |-> IF j = i THEN near.best ELSE st.bestd2[j]],
      changed |-> IF st.assign[i] # bi THEN 1 ELSE st.changed]

RECURSIVE AssignFrom(_, _)
AssignFrom(st, i) == IF i >= n THEN st ELSE AssignFrom(AssignOne(st, i), i + 1)

\* kmeans_run, serial path: the accumulators are reset and every sample is
\* assigned to its nearest centre, accumulating sums and weights.
Assign ==
  /\ pc = "assign"
  /\ LET zero == [c \in 0..(K - 1) |-> 0]
         st0 == [assign |-> assign, sr |-> zero, sg |-> zero, sb |-> zero, w |-> zero,
                 bestd2 |-> Empty, changed |-> 0]
         st == AssignFrom(st0, 0)
     IN /\ assign' = st.assign
        /\ bestd2' = st.bestd2
        /\ changed' = st.changed
        /\ sr' = st.sr /\ sg' = st.sg /\ sb' = st.sb
        /\ clusters' = [c \in 0..(K - 1) |-> Cluster(clusters[c].color, st.w[c])]
  /\ pc' = "reset"
  /\ it' = it
  /\ UNCHANGED <<im, opt, sampleVars, K, ppVars, mergeVars, ret, out, callVars, sideVars>>

\* kmeans_run: the farthest sample, the first i of greatest bestd2 (strict >
\* from farD2 = -1).
RECURSIVE FarFrom(_, _, _, _)
FarFrom(bd, i, farD2, farIdx) ==
  IF i >= n THEN farIdx
  ELSE IF bd[i] > farD2 THEN FarFrom(bd, i + 1, bd[i], i)
  ELSE FarFrom(bd, i + 1, farD2, farIdx)

\* (mutant) the farthest sample taken as the last i of greatest bestd2.
FarIdxLast(bd) ==
  CHOOSE i \in 0..(n - 1) :
    /\ \A j \in 0..(n - 1) : bd[j] <= bd[i]
    /\ \A j \in (i + 1)..(n - 1) : bd[j] < bd[i]

FarIdx(bd) == FarFrom(bd, 0, -1, -1)

\* (mutant) the recovery that moves the sample without taking its channels
\* out of the sums of the cluster it leaves.
ResetOneKeepSums(st, c) ==
  IF st.w[c] > 0 THEN st
  ELSE LET far == FarIdx(bestd2)
           old == st.assign[far]
           s == samples[far]
           w1 == IF old >= 0 /\ old < K /\ st.w[old] > 0 THEN [st.w EXCEPT ![old] = @ - 1]
                 ELSE st.w
       IN [assign |-> [st.assign EXCEPT ![far] = c],
           sr |-> [st.sr EXCEPT ![c] = @ + s.r],
           sg |-> [st.sg EXCEPT ![c] = @ + s.g],
           sb |-> [st.sb EXCEPT ![c] = @ + s.b],
           w |-> [w1 EXCEPT ![c] = @ + 1],
           changed |-> 1]

\* (mutant) the recovery that leaves the weight of the robbed cluster as it
\* was.
ResetOneKeepWeight(st, c) ==
  IF st.w[c] > 0 THEN st
  ELSE LET far == FarIdx(bestd2)
           old == st.assign[far]
           s == samples[far]
       IN [assign |-> [st.assign EXCEPT ![far] = c],
           sr |-> [[st.sr EXCEPT ![old] = @ - s.r] EXCEPT ![c] = @ + s.r],
           sg |-> [[st.sg EXCEPT ![old] = @ - s.g] EXCEPT ![c] = @ + s.g],
           sb |-> [[st.sb EXCEPT ![old] = @ - s.b] EXCEPT ![c] = @ + s.b],
           w |-> [st.w EXCEPT ![c] = @ + 1],
           changed |-> 1]

\* kmeans_run, serial path: one pass of the empty-cluster loop for cluster c
\* on the running state st = [assign, sr, sg, sb, w, changed].
ResetOne(st, c) ==
  IF st.w[c] > 0 THEN st
  ELSE LET far == FarIdx(bestd2)
       IN IF far < 0 THEN st
          ELSE LET old == st.assign[far]
                   s == samples[far]
                   has == old >= 0 /\ old < K
                   sr1 == IF has THEN [st.sr EXCEPT ![old] = @ - s.r] ELSE st.sr
                   sg1 == IF has THEN [st.sg EXCEPT ![old] = @ - s.g] ELSE st.sg
                   sb1 == IF has THEN [st.sb EXCEPT ![old] = @ - s.b] ELSE st.sb
                   w1 == IF has /\ st.w[old] > 0 THEN [st.w EXCEPT ![old] = @ - 1] ELSE st.w
               IN [assign |-> [st.assign EXCEPT ![far] = c],
                   sr |-> [sr1 EXCEPT ![c] = @ + s.r],
                   sg |-> [sg1 EXCEPT ![c] = @ + s.g],
                   sb |-> [sb1 EXCEPT ![c] = @ + s.b],
                   w |-> [w1 EXCEPT ![c] = @ + 1],
                   changed |-> 1]

RECURSIVE ResetFrom(_, _)
ResetFrom(st, c) == IF c >= K THEN st ELSE ResetFrom(ResetOne(st, c), c + 1)

\* kmeans_run, serial path: every cluster left empty by the assignment
\* takes the farthest sample.
ResetEmpty ==
  /\ pc = "reset"
  /\ LET st0 == [assign |-> assign, sr |-> sr, sg |-> sg, sb |-> sb,
                 w |-> [c \in 0..(K - 1) |-> clusters[c].weight], changed |-> changed]
         st == ResetFrom(st0, 0)
     IN /\ assign' = st.assign
        /\ sr' = st.sr /\ sg' = st.sg /\ sb' = st.sb
        /\ clusters' = [c \in 0..(K - 1) |-> Cluster(clusters[c].color, st.w[c])]
        /\ changed' = st.changed
  /\ pc' = "update"
  /\ UNCHANGED <<im, opt, sampleVars, K, ppVars, bestd2, it, mergeVars, ret, out, callVars, sideVars>>

\* (mutant) the centroids are never recomputed.
UpdatedColorKeep(cl, c) == cl[c].color

\* (mutant) the centroid set to the channel sums, not divided by the weight.
UpdatedColorSum(cl, c) ==
  IF cl[c].weight > 0 THEN RGBf(sr[c], sg[c], sb[c]) ELSE cl[c].color

\* kmeans_run: the centroid of a cluster of positive weight is the mean of
\* its sums; an empty cluster keeps its centroid.
UpdatedColor(cl, c) ==
  IF cl[c].weight > 0
    THEN RGBf(sr[c] \div cl[c].weight, sg[c] \div cl[c].weight, sb[c] \div cl[c].weight)
    ELSE cl[c].color

\* kmeans_run: the update of the centroids, then the loop's exit test
\* (break when nothing changed, or it reaches iters).
Update ==
  /\ pc = "update"
  /\ clusters' = [c \in 0..(K - 1) |-> Cluster(UpdatedColor(clusters, c), clusters[c].weight)]
  /\ it' = it + 1
  /\ pc' = IF changed = 0 \/ it + 1 >= IterCap THEN "merge" ELSE "assign"
  /\ UNCHANGED <<im, opt, sampleVars, K, ppVars, assign, sr, sg, sb, bestd2, changed,
                 mergeVars, ret, out, callVars, sideVars>>

\* ------------------------------------------------------------ merge_colors
\* (mutant) the comparator of an ascending sort.
cmp_cluster_weight_asc(a, b) ==
  IF a.weight < b.weight THEN -1 ELSE IF a.weight > b.weight THEN 1 ELSE 0

\* cmp_cluster_weight_desc(a, b) < 0, = 0, > 0.
cmp_cluster_weight_desc(a, b) ==
  IF a.weight < b.weight THEN 1 ELSE IF a.weight > b.weight THEN -1 ELSE 0

\* The orders qsort may leave the K clusters in: every arrangement in which
\* no element is followed by one that compares before it (qsort is not
\* stable: clusters of equal weight come out in any order).
SortedOrders(cl, cnt) ==
  LET perms == {p \in [0..(cnt - 1) -> 0..(cnt - 1)] :
                  \A i, j \in 0..(cnt - 1) : i # j => p[i] # p[j]}
      arr(p) == [i \in 0..(cnt - 1) |-> cl[p[i]]]
  IN {arr(p) : p \in {q \in perms :
        \A i \in 0..(cnt - 2) : cmp_cluster_weight_desc(cl[q[i]], cl[q[i + 1]]) <= 0}}

\* rgb_thresh2 = distance * distance * 3.0, in 1/Q^2, rounded down (the
\* squared distances compared with it are integers).
Thresh2(distance) == (3 * distance.n * distance.n * Q * Q) \div (distance.d * distance.d)

ColorAgg(c, w, hsl) == [color |-> c, weight |-> w, h |-> hsl.h, s |-> hsl.s, l |-> hsl.l]

\* (mutant) the HSL test passing when any one of its three differences is
\* under its threshold.
MergeTestAnyHsl(c, hsl, a, options) ==
  LET hd == hue_arc_dist(hsl.h, a.h)
      sd == RatAbsDiff(hsl.s, a.s)
      ld == RatAbsDiff(hsl.l, a.l)
  IN \/ rgb_dist2_raw(c, a.color) <= Thresh2(options.distance)
     \/ (RatLT(sd, options.satDist) \/ RatLT(ld, options.lightDist) \/ RatLT(hd, options.hueDist))

\* merge_colors: the test that merges colour c (with HSL hsl) into aggregate a.
MergeTest(c, hsl, a, options) ==
  LET hd == hue_arc_dist(hsl.h, a.h)
      sd == RatAbsDiff(hsl.s, a.s)
      ld == RatAbsDiff(hsl.l, a.l)
  IN \/ rgb_dist2_raw(c, a.color) <= Thresh2(options.distance)
     \/ (RatLT(sd, options.satDist) /\ RatLT(ld, options.lightDist) /\ RatLT(hd, options.hueDist))

\* merge_colors: the weighted merge of (c, w) into aggregate a.
MergeInto(a, c, w) ==
  LET tw == a.weight + w
      col == IF tw > 0
               THEN RGBf((a.color.r * a.weight + c.r * w) \div tw,
                         (a.color.g * a.weight + c.g * w) \div tw,
                         (a.color.b * a.weight + c.b * w) \div tw)
               ELSE a.color
  IN ColorAgg(col, tw, rgb_to_hsl(col.r, col.g, col.b))

\* (mutant) the index of the last aggregate the test accepts, m if none.
LastMatch(c, hsl, ac, cnt, options, j) ==
  LET hits == {i \in j..(cnt - 1) : MergeTest(c, hsl, ac[i], options)}
  IN IF hits = {} THEN cnt ELSE CHOOSE i \in hits : \A t \in hits : t <= i

\* merge_colors: the index of the first aggregate the test accepts, m if none.
RECURSIVE FirstMatch(_, _, _, _, _, _)
FirstMatch(c, hsl, ac, cnt, options, j) ==
  IF j >= cnt THEN cnt
  ELSE IF MergeTest(c, hsl, ac[j], options) THEN j
  ELSE FirstMatch(c, hsl, ac, cnt, options, j + 1)

\* (mutant) no cluster is skipped.
SkipNever(w) == FALSE

\* merge_colors: a cluster of weight <= 0 is skipped.
SkipCluster(w) == w <= 0

\* extract_colors_core sums the weights; merge_colors copies and sorts the
\* clusters.
MergeSort ==
  /\ pc = "merge"
  /\ totalW' = SumTo([c \in 0..(K - 1) |-> clusters[c].weight], K - 1)
  /\ \E srt \in SortedOrders(clusters, K) : sorted' = srt
  /\ mi' = 0 /\ m' = 0 /\ acc' = Empty
  /\ pc' = "merge_loop"
  /\ UNCHANGED <<im, opt, sampleVars, K, clusters, ppVars, runVars, ret, out, callVars, sideVars>>

\* merge_colors: one pass of the loop over the sorted clusters.
MergeStep ==
  /\ pc = "merge_loop"
  /\ mi < K
  /\ LET c == sorted[mi].color
         w == sorted[mi].weight
         hsl == rgb_to_hsl(c.r, c.g, c.b)
         j == FirstMatch(c, hsl, acc, m, opt, 0)
     IN IF SkipCluster(w)
          THEN UNCHANGED <<acc, m>>
          ELSE IF j < m
            THEN /\ acc' = [acc EXCEPT ![j] = MergeInto(acc[j], c, w)]
                 /\ m' = m
            ELSE /\ acc' = [i \in 0..m |-> IF i = m THEN ColorAgg(c, w, hsl) ELSE acc[i]]
                 /\ m' = m + 1
  /\ mi' = mi + 1
  /\ UNCHANGED <<im, opt, pc, sampleVars, K, clusters, ppVars, runVars, sorted, totalW, ret, out, callVars, sideVars>>

\* (mutant) the weights handed out without normalisation.
AreaRaw(w, total) == Rat(w, 1)

\* merge_colors: an aggregate's weight becomes its share of totalWeight (0
\* when totalWeight is not positive).
Area(w, total) == IF total > 0 THEN Rat(w, total) ELSE Rat(0, 1)

\* merge_colors: the normalisation of the weights; extract_colors_core
\* hands the list out and returns 1.
MergeFinish ==
  /\ pc = "merge_loop"
  /\ mi >= K
  /\ acc' = [i \in 0..(m - 1) |-> [acc[i] EXCEPT !.weight = Area(acc[i].weight, totalW)]]
  /\ outAgg' = AggPtr(acc') /\ outM' = m /\ stored' = {"outAgg", "outM"}
  /\ pc' = "done"
  /\ ret' = 1
  /\ UNCHANGED <<im, opt, sampleVars, K, clusters, ppVars, runVars, sorted, mi, m, totalW, out,
                 caller, allocFailed, g_out_buf, sideVars>>

\* ---------------------------------------------- extract_colors_from_image
\* clampd(x, lo, hi).
clampd(c, lo, hi) == IF c < lo THEN lo ELSE IF c > hi THEN hi ELSE c

\* (int)lround(clampd(c, 0.0, 1.0) * 255.0): halves round away from zero.
Channel255(c) == (2 * clampd(c, 0, Q) * ChannelMax + Q) \div (2 * Q)

\* print_hex_from_rgb: "#rrggbb", two lowercase hex digits per channel.
HexDigit(v) == <<"0", "1", "2", "3", "4", "5", "6", "7", "8", "9", "a", "b", "c", "d", "e", "f">>[v + 1]
HexByte(v) == HexDigit((v \div 16) % 16) \o HexDigit(v % 16)
print_hex_from_rgb(r, g, b) == "#" \o HexByte(r) \o HexByte(g) \o HexByte(b)

\* One object of the JSON array.
JsonOf(a) ==
  LET R == Channel255(a.color.r)
      G == Channel255(a.color.g)
      B == Channel255(a.color.b)
  IN [hex |-> print_hex_from_rgb(R, G, B), red |-> R, green |-> G, blue |-> B,
      hue |-> a.h, intensity |-> Rat(a.color.r + a.color.g + a.color.b, 3 * Q),
      lightness |-> a.l, saturation |-> a.s, area |-> a.weight]

\* extract_colors_from_image: after a successful extract_colors_core the
\* aggregates are printed in order.
PrintJson ==
  /\ pc = "done"
  /\ caller = "main"
  /\ ret = 1
  /\ out' = [i \in 0..(m - 1) |-> JsonOf(acc[i])]
  /\ pc' = "exit"
  /\ UNCHANGED <<im, opt, sampleVars, K, clusters, ppVars, runVars, mergeVars, ret, callVars, sideVars>>

\* ------------------------------------------- merge_colors on its own inputs
\* Cluster colours merge_colors is run on: red, dark red and a slate blue
\* (102, 102, 204), which differs from red in hue, saturation and RGB.
MergePalette ==
  {SampleOf(PxRed), SampleOf(PxDarkRed), SampleOf([r |-> 102, g |-> 102, b |-> 204])}

MergeClusters == {Cluster(c, w) : c \in MergePalette, w \in 0..MergeMaxWeight}
MergeInputs == UNION {[0..(cnt - 1) -> MergeClusters] : cnt \in 1..MergeMaxK}
MergeOptionsSet ==
  {[DefaultOptions EXCEPT !.distance = dd] : dd \in {Rat(1, 10), DefaultDistance}}
Pixel1x1 == [width |-> 1, height |-> 1, rgba |-> [i \in {0} |-> PxRed]]

\* merge_colors(clusters, K, totalWeight, opt, ..) entered with a cluster
\* list of its own.
InitMerge ==
  \E cl \in MergeInputs, options \in MergeOptionsSet :
    /\ im = Pixel1x1
    /\ opt = options
    /\ pc = "merge"
    /\ x = 0 /\ y = 0
    /\ samples = Empty /\ n = 0
    /\ K = Cardinality(DOMAIN cl) /\ clusters = cl
    /\ dist2 = Empty /\ k = 0
    /\ assign = Empty /\ sr = Empty /\ sg = Empty /\ sb = Empty /\ bestd2 = Empty
    /\ it = 0 /\ changed = 0
    /\ sorted = Empty /\ mi = 0 /\ acc = Empty /\ m = 0 /\ totalW = 0
    /\ ret = -1
    /\ out = Empty
    /\ rgbIn = Empty /\ hslOut = Empty
    /\ PixIdle /\ GamutIdle /\ OmpIdle /\ StrBufIdle
    /\ CallIdle("main")

NextMerge ==
  \/ MergeSort
  \/ MergeStep
  \/ MergeFinish

SpecMerge == InitMerge /\ [][NextMerge]_vars

\* merge_colors entered with the cluster list cl under the options given.
InitMergeCall(cl, options) ==
  /\ im = Pixel1x1
  /\ opt = options
  /\ pc = "merge"
  /\ x = 0 /\ y = 0
  /\ samples = Empty /\ n = 0
  /\ K = Cardinality(DOMAIN cl) /\ clusters = cl
  /\ dist2 = Empty /\ k = 0
  /\ assign = Empty /\ sr = Empty /\ sg = Empty /\ sb = Empty /\ bestd2 = Empty
  /\ it = 0 /\ changed = 0
  /\ sorted = Empty /\ mi = 0 /\ acc = Empty /\ m = 0 /\ totalW = 0
  /\ ret = -1
  /\ out = Empty
  /\ rgbIn = Empty /\ hslOut = Empty
  /\ PixIdle /\ GamutIdle /\ OmpIdle /\ StrBufIdle
  /\ CallIdle("main")

\* Reds of three lightnesses: 1 and 7/12, which the default options keep
\* apart (squared distance above the threshold, lightness difference above
\* lightDist), and a centroid at 3/4 between them that both accept and
\* that is nearer to the darker one.
OrderPalette == {SampleOf(PxRed), RGBf((7 * Q) \div 12, 0, 0), RGBf((3 * Q) \div 4, 0, 0)}
OrderClusters == {Cluster(c, w) : c \in OrderPalette, w \in 0..MergeMaxWeight}
OrderInputs == UNION {[0..(cnt - 1) -> OrderClusters] : cnt \in 1..MergeMaxK}

InitMergeOrder == \E cl \in OrderInputs : InitMergeCall(cl, DefaultOptions)

SpecMergeOrder == InitMergeOrder /\ [][NextMerge]_vars

\* merge_colors on two clusters of positive weight: the reds above, the
\* red (153,0,0) (lightness 0.3, at lightDist from that of (255,0,0)), white
\* and a grey at 0.75 (normalised distance 1/4 from white), under a
\* distance option that is negative, zero, 1/4 or the default.
TestPalette ==
  OrderPalette \cup {SampleOf([r |-> 153, g |-> 0, b |-> 0]), RGBf(Q, Q, Q),
                     RGBf((3 * Q) \div 4, (3 * Q) \div 4, (3 * Q) \div 4)}
TestClusters == {Cluster(c, w) : c \in TestPalette, w \in 1..MergeMaxWeight}
TestDistanceSet == {Rat(-1, 4), Rat(0, 1), Rat(1, 4), DefaultDistance}

InitMergeTest ==
  \E cl \in [0..1 -> TestClusters], dd \in TestDistanceSet :
     InitMergeCall(cl, [DefaultOptions EXCEPT !.distance = dd])

SpecMergeTest == InitMergeTest /\ [][NextMerge]_vars

\* --------------------------------------------- rgb_to_hsl on its own inputs
\* rgb_to_hsl(r, g, b, &h, &s, &l) entered with doubles of [0,1].
InitHsl ==
  \E r \in FloatUnit, g \in FloatUnit, b \in FloatUnit :
    /\ im = Pixel1x1
    /\ opt = DefaultOptions
    /\ pc = "hsl"
    /\ x = 0 /\ y = 0
    /\ samples = Empty /\ n = 0
    /\ K = 0 /\ clusters = Empty
    /\ dist2 = Empty /\ k = 0
    /\ assign = Empty /\ sr = Empty /\ sg = Empty /\ sb = Empty /\ bestd2 = Empty
    /\ it = 0 /\ changed = 0
    /\ sorted = Empty /\ mi = 0 /\ acc = Empty /\ m = 0 /\ totalW = 0
    /\ ret = -1
    /\ out = Empty
    /\ rgbIn = [r |-> r, g |-> g, b |-> b] /\ hslOut = Empty
    /\ PixIdle /\ GamutIdle /\ OmpIdle /\ StrBufIdle
    /\ CallIdle("main")

HslCall ==
  /\ pc = "hsl"
  /\ hslOut' = rgb_to_hsl_double(rgbIn.r, rgbIn.g, rgbIn.b)
  /\ pc' = "hsl_done"
  /\ UNCHANGED <<im, opt, sampleVars, K, clusters, ppVars, runVars, mergeVars, ret, out, rgbIn, callVars, pixVars, gamutVars, ompVars, strbuf>>

SpecHsl == InitHsl /\ [][HslCall]_vars

Next ==
  \/ Enter
  \/ SamplePixel
  \/ PPFirst
  \/ PPNext
  \/ Assign
  \/ ResetEmpty
  \/ Update
  \/ MergeSort
  \/ MergeStep
  \/ MergeFinish
  \/ PrintJson

Spec == Init /\ [][Next]_vars

\* ------------------------------------------------------------- clustering
\* The pipeline under the default options and every maxColors of the bounds.
InitKmeans ==
  \E image \in Images, mc \in MaxColorsSet :
     InitCore(image, [DefaultOptions EXCEPT !.maxColors = mc])

SpecKmeans == InitKmeans /\ [][Next]_vars

\* The same calls, and the calls extract_colors_core refuses.
InitBadArgs == \E image \in BadImages : InitCore(image, DefaultOptions)

SpecArgs == (InitKmeans \/ InitBadArgs) /\ [][Next]_vars

\* --------------------------------------------- kmeans_run, OpenMP build
\* #pragma omp parallel for schedule(static): the n samples are dealt out
\* in contiguous chunks, thread t taking samples ChunkLo(t)..ChunkHi(t)-1 in
\* order, the first n % OmpThreads threads one sample more than the others.
ChunkSize(t) == (n \div OmpThreads) + (IF t < n % OmpThreads THEN 1 ELSE 0)

\* (mutant) every thread starts its chunk at sample 0.
ChunkLoZero(t) == 0

ChunkLo(t) == t * (n \div OmpThreads) + Min2(t, n % OmpThreads)
ChunkHi(t) == ChunkLo(t) + ChunkSize(t)

\* reduction(| : changed_any): the private copies or-ed together.
ReduceOr(flags) == IF \E t \in DOMAIN flags : flags[t] = 1 THEN 1 ELSE 0

\* (ghost) the serial build's assignment pass from the same assign[] and
\* centroids: assign, sums, weights, bestd2 and changed after it.
SerialAssign ==
  LET zero == [c \in 0..(K - 1) |-> 0]
  IN AssignFrom([assign |-> assign, sr |-> zero, sg |-> zero, sb |-> zero, w |-> zero,
                 bestd2 |-> Empty, changed |-> 0], 0)

\* The top of an iteration in the OpenMP build: weights and sums are
\* zeroed, changed_any = 0, and the threads are started on their chunks.
\* bestd2[] is malloc'ed and not yet written in the first iteration (-1
\* here; no entry is read before the loop has written it).
OmpFork ==
  /\ pc = "assign"
  /\ pc' = "omp_par"
  /\ clusters' = [c \in 0..(K - 1) |-> Cluster(clusters[c].color, 0)]
  /\ sr' = [c \in 0..(K - 1) |-> 0]
  /\ sg' = [c \in 0..(K - 1) |-> 0]
  /\ sb' = [c \in 0..(K - 1) |-> 0]
  /\ bestd2' = [i \in 0..(n - 1) |-> IF i \in DOMAIN bestd2 THEN bestd2[i] ELSE -1]
  /\ changed' = 0
  /\ ompNext' = [t \in 0..(OmpThreads - 1) |-> ChunkLo(t)]
  /\ ompChanged' = [t \in 0..(OmpThreads - 1) |-> 0]
  /\ serial' = SerialAssign
  /\ UNCHANGED <<im, opt, sampleVars, K, ppVars, assign, it, mergeVars, ret, out, callVars,
                 hslVars, pixVars, gamutVars, strbuf>>

\* One pass of the parallel loop's body, by thread t on the next sample of
\* its chunk: the nearest centre, bestd2[i], assign[i], and the thread's
\* copy of changed_any.
OmpWorker ==
  /\ pc = "omp_par"
  /\ \E t \in 0..(OmpThreads - 1) :
       /\ ompNext[t] < ChunkHi(t)
       /\ LET i == ompNext[t]
              near == Nearest(samples[i], clusters)
          IN /\ bestd2' = [bestd2 EXCEPT ![i] = near.best]
             /\ assign' = [assign EXCEPT ![i] = near.bi]
             /\ ompChanged' = [ompChanged EXCEPT ![t] = IF assign[i] # near.bi THEN 1 ELSE @]
             /\ ompNext' = [ompNext EXCEPT ![t] = i + 1]
  /\ UNCHANGED <<im, opt, pc, sampleVars, K, clusters, ppVars, sr, sg, sb, it, changed,
                 mergeVars, ret, out, callVars, hslVars, pixVars, gamutVars, serial, strbuf>>

\* (mutant) the recovery that leaves counts[old] as it was.
OmpResetOneKeepCount(st, c) ==
  IF st.counts[c] > 0 THEN st
  ELSE LET far == FarIdx(bestd2)
       IN [assign |-> [st.assign EXCEPT ![far] = c],
           counts |-> [st.counts EXCEPT ![c] = @ + 1],
           changed |-> 1]

\* OpenMP build: one pass of the empty-cluster loop for cluster c on the
\* running state st = [assign, counts, changed].
OmpResetOne(st, c) ==
  IF st.counts[c] > 0 THEN st
  ELSE LET far == FarIdx(bestd2)
       IN IF far < 0 THEN st
          ELSE LET old == st.assign[far]
                   c1 == IF old >= 0 /\ old < K /\ st.counts[old] > 0
                           THEN [st.counts EXCEPT ![old] = @ - 1] ELSE st.counts
               IN [assign |-> [st.assign EXCEPT ![far] = c],
                   counts |-> [c1 EXCEPT ![c] = @ + 1],
                   changed |-> 1]

RECURSIVE OmpResetFrom(_, _)
OmpResetFrom(st, c) == IF c >= K THEN st ELSE OmpResetFrom(OmpResetOne(st, c), c + 1)

\* OpenMP build: the channel sum of cluster c, accumulated over the samples
\* in index order from the final assign[].
RECURSIVE OmpSum(_, _, _, _)
OmpSum(asg, c, ch, i) ==
  IF i >= n THEN 0
  ELSE (IF asg[i] = c THEN samples[i][ch] ELSE 0) + OmpSum(asg, c, ch, i + 1)

\* OpenMP build, after the parallel loop (its implicit barrier passed):
\* changed = changed_any, the counts, the empty-cluster loop on the counts,
\* the sums from the final assign[] and the weights from the counts.
OmpSerial ==
  /\ pc = "omp_par"
  /\ \A t \in 0..(OmpThreads - 1) : ompNext[t] >= ChunkHi(t)
  /\ LET counts == [c \in 0..(K - 1) |-> Cardinality({i \in 0..(n - 1) : assign[i] = c})]
         st == OmpResetFrom([assign |-> assign, counts |-> counts,
                             changed |-> ReduceOr(ompChanged)], 0)
     IN /\ assign' = st.assign
        /\ changed' = st.changed
        /\ sr' = [c \in 0..(K - 1) |-> OmpSum(st.assign, c, "r", 0)]
        /\ sg' = [c \in 0..(K - 1) |-> OmpSum(st.assign, c, "g", 0)]
        /\ sb' = [c \in 0..(K - 1) |-> OmpSum(st.assign, c, "b", 0)]
        /\ clusters' = [c \in 0..(K - 1) |-> Cluster(clusters[c].color, st.counts[c])]
  /\ pc' = "update"
  /\ ompNext' = Empty /\ ompChanged' = Empty /\ serial' = Empty
  /\ UNCHANGED <<im, opt, sampleVars, K, ppVars, bestd2, it, mergeVars, ret, out, callVars,
                 hslVars, pixVars, gamutVars, strbuf>>

\* The pipeline of the build with ENABLE_OMP: the update of the centroids,
\* the exit test and everything outside kmeans_run's loop are the code of
\* the serial build.
NextOmp ==
  \/ Enter
  \/ SamplePixel
  \/ PPFirst
  \/ PPNext
  \/ OmpFork
  \/ OmpWorker
  \/ OmpSerial
  \/ Update
  \/ MergeSort
  \/ MergeStep
  \/ MergeFinish
  \/ PrintJson

SpecOmp == InitKmeans /\ [][NextOmp]_vars

\* ------------------------------------------------ the wasm entry point
\* extract_colors_from_rgba_js: the Options built from the arguments.
JsOptions(pixels, distance, satDist, lightDist, hueDist, alphaThreshold, maxColors) ==
  [pixels |-> IF pixels > 0 THEN pixels ELSE DefaultPixels,
   distance |-> distance, satDist |-> satDist, lightDist |-> lightDist, hueDist |-> hueDist,
   alphaThreshold |-> alphaThreshold,
   maxColors |-> IF maxColors > 0 /\ maxColors <= EXTRACT_MAX_OUT_COLORS
                   THEN maxColors ELSE DefaultMaxColors]

\* Arguments of the wasm call: pixels and maxColors in and out of range.
JsPixelsSet == {0, 1}
JsMaxColorsSet == {0, 2, EXTRACT_MAX_OUT_COLORS, EXTRACT_MAX_OUT_COLORS + 1}

\* The images of the wasm calls: those of one row (past the sampling loops
\* the layout of the pixels plays no part), and the refused ones.
JsImages == {image \in Images : image.height = 1} \cup BadImages

InitJs ==
  \E image \in JsImages, pixels \in JsPixelsSet, maxColors \in JsMaxColorsSet :
    InitCall(image,
             JsOptions(pixels, DefaultDistance, DefaultSatDist, DefaultLightDist,
                       DefaultHueDist, DefaultAlphaThreshold, maxColors),
             "js")

\* pack_results_to_out: the count it packs, at most EXTRACT_MAX_OUT_COLORS.
PackCount(cnt) == IF cnt > EXTRACT_MAX_OUT_COLORS THEN EXTRACT_MAX_OUT_COLORS ELSE cnt

\* pack_results_to_out: the double stored at g_out_buf[i] for the list agg
\* of cnt aggregates: the count, then 8 doubles for each aggregate.
PackedAt(agg, cnt, i) ==
  IF i = 0 THEN PackCount(cnt)
  ELSE LET a == agg[(i - 1) \div 8]
           c == a.color
       IN CASE (i - 1) % 8 = 0 -> Rat(clampd(c.r, 0, Q) * ChannelMax, Q)
            [] (i - 1) % 8 = 1 -> Rat(clampd(c.g, 0, Q) * ChannelMax, Q)
            [] (i - 1) % 8 = 2 -> Rat(clampd(c.b, 0, Q) * ChannelMax, Q)
            [] (i - 1) % 8 = 3 -> a.h
            [] (i - 1) % 8 = 4 -> Rat(c.r + c.g + c.b, 3 * Q)
            [] (i - 1) % 8 = 5 -> a.l
            [] (i - 1) % 8 = 6 -> a.s
            [] OTHER -> a.weight

\* extract_colors_from_rgba_js after a successful extract_colors_core:
\* pack_results_to_out(agg, m); the cells it stores are the domain.
PackResults ==
  /\ pc = "done"
  /\ caller = "js"
  /\ ret = 1
  /\ g_out_buf' = [i \in 0..(8 * PackCount(outM)) |-> PackedAt(outAgg.agg, outM, i)]
  /\ pc' = "exit"
  /\ UNCHANGED <<im, opt, sampleVars, K, clusters, ppVars, runVars, mergeVars, ret, out,
                 caller, outAgg, outM, stored, allocFailed, sideVars>>

\* The same images handed to extract_colors_core by main, under the
\* default options and every maxColors of the bounds.
InitJsMain ==
  \E image \in JsImages, mc \in MaxColorsSet :
     InitCore(image, [DefaultOptions EXCEPT !.maxColors = mc])

\* The pipeline called from main and from the wasm entry point.
SpecJs == (InitJsMain \/ InitJs) /\ [][Next \/ PackResults]_vars

\* The pipeline at rest, for the functions run on their own.
CoreIdle(at) ==
  /\ im = Pixel1x1
  /\ opt = DefaultOptions
  /\ pc = at
  /\ x = 0 /\ y = 0
  /\ samples = Empty /\ n = 0
  /\ K = 0 /\ clusters = Empty
  /\ dist2 = Empty /\ k = 0
  /\ assign = Empty /\ sr = Empty /\ sg = Empty /\ sb = Empty /\ bestd2 = Empty
  /\ it = 0 /\ changed = 0
  /\ sorted = Empty /\ mi = 0 /\ acc = Empty /\ m = 0 /\ totalW = 0
  /\ ret = -1
  /\ out = Empty
  /\ CallIdle("js")

\* -------------------------------------------------------- get_pixels_buffer
\* (mutant) the result of realloc stored before it is tested.
get_pixels_buffer_untested(buf, cap, size, nbuf) ==
  IF size > cap
    THEN [buf |-> nbuf, cap |-> IF nbuf = 0 THEN cap ELSE size, ret |-> nbuf]
    ELSE [buf |-> buf, cap |-> cap, ret |-> buf]

\* get_pixels_buffer(size) on the globals (buf, cap), where realloc would
\* return nbuf (0 for NULL): the globals after the call and the return value.
get_pixels_buffer(buf, cap, size, nbuf) ==
  IF size > cap
    THEN IF nbuf = 0
           THEN [buf |-> buf, cap |-> cap, ret |-> 0]
           ELSE [buf |-> nbuf, cap |-> size, ret |-> nbuf]
    ELSE [buf |-> buf, cap |-> cap, ret |-> buf]

InitPixels ==
  /\ CoreIdle("pixels")
  /\ rgbIn = Empty /\ hslOut = Empty
  /\ PixIdle /\ GamutIdle /\ OmpIdle /\ StrBufIdle

\* One call of get_pixels_buffer from JavaScript.
GetPixelsBuffer ==
  /\ pc = "pixels"
  /\ \E size \in 0..MaxBufSize, nbuf \in 0..MaxBufAddr :
       LET r == get_pixels_buffer(g_pixels_buf, g_pixels_cap, size, nbuf)
       IN /\ g_pixels_buf' = r.buf
          /\ g_pixels_cap' = r.cap
          /\ pixReq' = size
          /\ pixRet' = r.ret
  /\ UNCHANGED <<im, opt, pc, sampleVars, K, clusters, ppVars, runVars, mergeVars, ret, out,
                 callVars, hslVars, gamutVars, ompVars, strbuf>>

SpecPixels == InitPixels /\ [][GetPixelsBuffer]_vars

\* --------------------------------------- find_gamut_safe_chroma (oklch2rgb.c)
\* The scale factor k of [0,1] is the integer k * 2^30, so that lo, hi and
\* every mid = 0.5 * (lo + hi) of the 30 steps are exact, as they are in
\* double.  BisectUnit is the factor 1.0.
BisectUnit == Pow2(BisectSteps)

\* For fixed (L, C, h), where the chroma C * k is in gamut
\* (is_linear_in_srgb_gamut of oklch_to_linear_rgb(L, C * k, h)): for k up
\* to t1, and for k in [t2, t3].  k = 0 is in gamut, as it is for L in [0,1].
InGamut(g, kk) == kk <= g.t1 \/ (g.t2 <= kk /\ kk <= g.t3)

GamutThresholds ==
  {0, 1, BisectUnit \div 3, BisectUnit \div 2, BisectUnit \div 2 + 1, BisectUnit - 1, BisectUnit}
GamutIslands ==
  {<<1, 0>>, <<5 * (BisectUnit \div 8), 6 * (BisectUnit \div 8)>>}
GamutSet == {[t1 |-> t, t2 |-> isl[1], t3 |-> isl[2]] : t \in GamutThresholds, isl \in GamutIslands}

\* (mutant) the bisection with its two branches exchanged.
BisectNextSwapped(g, l, h) ==
  LET mid == (l + h) \div 2
  IN IF InGamut(g, mid) THEN [lo |-> l, hi |-> mid] ELSE [lo |-> mid, hi |-> h]

\* One step of the loop: mid = 0.5 * (lo + hi); lo = mid when C * mid is
\* in gamut, hi = mid otherwise.
BisectNext(g, l, h) ==
  LET mid == (l + h) \div 2
  IN IF InGamut(g, mid) THEN [lo |-> mid, hi |-> h] ELSE [lo |-> l, hi |-> mid]

InitGamut ==
  /\ CoreIdle("chroma")
  /\ rgbIn = Empty /\ hslOut = Empty
  /\ PixIdle /\ OmpIdle /\ StrBufIdle
  /\ gamutIn \in GamutSet
  /\ bisLo = 0 /\ bisHi = 0 /\ bisI = 0 /\ bisRet = -1

\* find_gamut_safe_chroma: the test of C itself; return C, or lo = 0.0,
\* hi = 1.0 and the loop.
ChromaEnter ==
  /\ pc = "chroma"
  /\ IF InGamut(gamutIn, BisectUnit)
       THEN /\ bisRet' = BisectUnit
            /\ pc' = "chroma_done"
            /\ UNCHANGED <<bisLo, bisHi, bisI>>
       ELSE /\ bisLo' = 0 /\ bisHi' = BisectUnit /\ bisI' = 0
            /\ pc' = "bisect"
            /\ bisRet' = bisRet
  /\ UNCHANGED <<im, opt, sampleVars, K, clusters, ppVars, runVars, mergeVars, ret, out,
                 callVars, hslVars, pixVars, gamutIn, ompVars, strbuf>>

\* find_gamut_safe_chroma: one pass of the loop, and past it return C * lo.
BisectStep ==
  /\ pc = "bisect"
  /\ IF bisI < BisectSteps
       THEN /\ LET nx == BisectNext(gamutIn, bisLo, bisHi)
               IN bisLo' = nx.lo /\ bisHi' = nx.hi
            /\ bisI' = bisI + 1
            /\ UNCHANGED <<pc, bisRet>>
       ELSE /\ bisRet' = bisLo
            /\ pc' = "chroma_done"
            /\ UNCHANGED <<bisLo, bisHi, bisI>>
  /\ UNCHANGED <<im, opt, sampleVars, K, clusters, ppVars, runVars, mergeVars, ret, out,
                 callVars, hslVars, pixVars, gamutIn, ompVars, strbuf>>

SpecGamut == InitGamut /\ [][ChromaEnter \/ BisectStep]_vars

\* ------------------------------------------------ squircle_svg.c: StrBuf
\* NULL, and the capacity sb_ensure starts from when sb->cap is 0.
SbNull == 0
SbBlock == 1
SbDefaultCap == 256

\* The capacities sb_init is called with: small ones, and the 2048 of
\* squircle_path.
SbInitCaps == {1, 2, 4, 2048}

\* sb_ensure: while (sb->len + extra + 1 > ncap) ncap *= 2.
RECURSIVE SbGrow(_, _)
SbGrow(ncap, need) == IF need > ncap THEN SbGrow(ncap * 2, need) ELSE ncap

\* sb_ensure(sb, extra) on the fields st, ok telling whether realloc
\* returns a block: nothing changes when the capacity suffices or realloc
\* fails; otherwise data is the new block of ncap bytes, with the bytes of
\* the old one.
sb_ensure(st, extra, ok) ==
  IF st.len + extra + 1 <= st.cap THEN st
  ELSE LET ncap == SbGrow(IF st.cap # 0 THEN st.cap ELSE SbDefaultCap, st.len + extra + 1)
       IN IF ~ok THEN st
          ELSE [st EXCEPT !.data = SbBlock, !.cap = ncap]

\* sb_append_len(sb, s, sl), and sb_append(sb, s) with sl = strlen(s):
\* sb_ensure, nothing more when data is NULL, else sl bytes copied to
\* data + len, len += sl, data[len] = 0.  The block data points to has cap
\* bytes; nul is the index of the last terminator written, past the
\* highest index any write reached.
sb_append_len(st, sl, ok) ==
  LET e == sb_ensure(st, sl, ok)
  IN IF e.data = SbNull THEN e
     ELSE [e EXCEPT !.len = e.len + sl, !.nul = e.len + sl,
                     !.oob = e.len + sl + 1 > e.cap]

InitStrBuf ==
  /\ CoreIdle("sb_init")
  /\ rgbIn = Empty /\ hslOut = Empty
  /\ PixIdle /\ GamutIdle /\ OmpIdle /\ StrBufIdle

\* sb_init(sb, cap): malloc(cap) returns a block or NULL; len = 0, cap as
\* given, and data[0] = 0 when there is a block.
SbInit ==
  /\ pc = "sb_init"
  /\ \E cap \in SbInitCaps, ok \in BOOLEAN :
       strbuf' = [data |-> IF ok THEN SbBlock ELSE SbNull, len |-> 0, cap |-> cap,
                  nul |-> IF ok THEN 0 ELSE -1, oob |-> FALSE]
  /\ pc' = "sb"
  /\ UNCHANGED <<im, opt, sampleVars, K, clusters, ppVars, runVars, mergeVars, ret, out,
                 callVars, hslVars, pixVars, gamutVars, ompVars>>

\* One call of sb_append or sb_append_len, of sl bytes, realloc returning a
\* block or NULL.  Nothing is followed past a write outside the block.
SbAppend ==
  /\ pc = "sb"
  /\ ~strbuf.oob
  /\ \E sl \in 0..SbMaxExtra, ok \in BOOLEAN :
       /\ strbuf.len + sl <= SbMaxLen
       /\ strbuf' = sb_append_len(strbuf, sl, ok)
  /\ UNCHANGED <<im, opt, pc, sampleVars, K, clusters, ppVars, runVars, mergeVars, ret, out,
                 callVars, hslVars, pixVars, gamutVars, ompVars>>

SpecStrBuf == InitStrBuf /\ [][SbInit \/ SbAppend]_vars

\* ------------------------------------------------------ allocation failures
\* The first allocation of a call that returns NULL; Spec has none.  A
\* store through the null pointer is undefined: the process is killed
\* (pc = "crashed") or the store lands (address 0 is writable in wasm
\* linear memory) and the call goes on.

\* samples = malloc(cap * sizeof(RGBf)) returns NULL; it is not tested.
SamplesAllocFails ==
  /\ pc = "entry"
  /\ ~BadArgs(im)
  /\ allocFailed = "none"
  /\ allocFailed' = "samples"
  /\ pc' = "sample"
  /\ UNCHANGED <<im, opt, sampleVars, K, clusters, ppVars, runVars, mergeVars, ret, out,
                 caller, outAgg, outM, stored, g_out_buf, sideVars>>

\* samples[n].r = ... through the null samples: the process is killed.
SamplesNullStore ==
  /\ pc = "sample"
  /\ allocFailed = "samples"
  /\ ~AlphaSkipped(PixelAt(x, y), opt)
  /\ pc' = "crashed"
  /\ UNCHANGED <<im, opt, sampleVars, K, clusters, ppVars, runVars, mergeVars, ret, out,
                 callVars, sideVars>>

\* clusters = malloc(K * sizeof(Cluster)) returns NULL: free(samples);
\* return 0.
ClustersAllocFails ==
  /\ pc = "clusters"
  /\ allocFailed = "none"
  /\ allocFailed' = "clusters"
  /\ K' = KOf(opt.maxColors, n)
  /\ pc' = "done"
  /\ ret' = 0
  /\ UNCHANGED <<im, opt, sampleVars, clusters, ppVars, runVars, mergeVars, out,
                 caller, outAgg, outM, stored, g_out_buf, sideVars>>

\* kmeans_pp_init: dist2 = malloc(..) returns NULL; every further centre is
\* samples[rand() % n] and the call goes on.
PPAllocFails ==
  /\ pc = "clusters"
  /\ allocFailed = "none"
  /\ allocFailed' = "dist2"
  /\ K' = KOf(opt.maxColors, n)
  /\ \E pick \in [0..(KOf(opt.maxColors, n) - 1) -> 0..(n - 1)] :
       clusters' = [c \in 0..(KOf(opt.maxColors, n) - 1) |-> Cluster(samples[pick[c]], 0)]
  /\ k' = KOf(opt.maxColors, n)
  /\ pc' = "pp_next"
  /\ UNCHANGED <<im, opt, sampleVars, dist2, runVars, mergeVars, ret, out,
                 caller, outAgg, outM, stored, g_out_buf, sideVars>>

\* kmeans_run: one of assign, sr, sg, sb, cr, cg, cb, bestd2 is NULL; the
\* function frees the others and returns, the clusters untouched.
RunAllocFails ==
  /\ pc = "pp_next"
  /\ k >= K
  /\ allocFailed = "none"
  /\ allocFailed' = "kmeans_run"
  /\ pc' = "merge"
  /\ UNCHANGED <<im, opt, sampleVars, K, clusters, ppVars, runVars, mergeVars, ret, out,
                 caller, outAgg, outM, stored, g_out_buf, sideVars>>

\* merge_colors: sorted or acc is NULL and is not tested; memcpy(sorted, ..)
\* or acc[m].color = c stores through it.
MergeAllocFails ==
  /\ pc = "merge"
  /\ allocFailed = "none"
  /\ allocFailed' \in {"sorted", "acc"}
  /\ pc' \in {"crashed", "merge"}
  /\ UNCHANGED <<im, opt, sampleVars, K, clusters, ppVars, runVars, mergeVars, ret, out,
                 caller, outAgg, outM, stored, g_out_buf, sideVars>>

NextFail ==
  \/ Next
  \/ SamplesAllocFails
  \/ SamplesNullStore
  \/ ClustersAllocFails
  \/ PPAllocFails
  \/ RunAllocFails
  \/ MergeAllocFails

SpecFail == Init /\ [][NextFail]_vars

\* The pipeline, and rgb_to_hsl on every double triple of the bounds.
SpecDiv == (Init \/ InitHsl) /\ [][Next \/ HslCall]_vars

\* ------------------------------------------------------------ the stride
\* The sampling loops alone, on every image shape up to StrideMaxSide on a
\* side (every third pixel below the alpha threshold) and on --pixels
\* values that are negative, zero, below, at and above w * h.
StrideImages ==
  {[width |-> w, height |-> h,
    rgba |-> [i \in 0..(w * h - 1) |-> IF i % 3 = 2 THEN PxFaintBlue ELSE PxRed]] :
     w \in 1..StrideMaxSide, h \in 1..StrideMaxSide}
StridePixelsSet == {-1, 0, 1, 2, 3, 4, 7, DefaultPixels}
StrideOptions(pixels) == [DefaultOptions EXCEPT !.pixels = pixels]

InitStride ==
  \E image \in StrideImages, pixels \in StridePixelsSet :
     InitCore(image, StrideOptions(pixels))

SpecStride == InitStride /\ [][Enter \/ SamplePixel]_vars

\* ------------------------------------------------------------------ claims
\* The grid the sampling loops run over, in row-major order, and the part
\* of it the loops have passed.
GridPoints ==
  {g \in (0..(im.width - 1)) \X (0..(im.height - 1)) : g[1] % Step = 0 /\ g[2] % Step = 0}
RowMajorBefore(g1, g2) == g1[2] < g2[2] \/ (g1[2] = g2[2] /\ g1[1] < g2[1])
Visited == IF pc = "sample" THEN {g \in GridPoints : RowMajorBefore(g, <<x, y>>)} ELSE GridPoints
AboveThreshold(g) == PixelAt(g[1], g[2]).a > opt.alphaThreshold
Accepted == {g \in Visited : AboveThreshold(g)}
AcceptedBefore(g) == Cardinality({g1 \in Accepted : RowMajorBefore(g1, g)})

\* C1: the samples are exactly the visited grid pixels whose alpha is above
\* alphaThreshold, in visiting order: a visited pixel with alpha equal to
\* the threshold is not among them, one with alpha threshold + 1 is, and n
\* is the number of visited pixels with alpha > alphaThreshold.
C1_AlphaFilter ==
  pc \in {"sample", "clusters", "done"} =>
    /\ n = Cardinality(Accepted)
    /\ DOMAIN samples = 0..(n - 1)
    /\ \A g \in Accepted : samples[AcceptedBefore(g)] = SampleOf(PixelAt(g[1], g[2]))
    /\ \A g \in Visited :
         /\ PixelAt(g[1], g[2]).a = opt.alphaThreshold => g \notin Accepted
         /\ PixelAt(g[1], g[2]).a = opt.alphaThreshold + 1 => g \in Accepted

\* C1 witness: the loops are done on an image in which one visited pixel has
\* alpha equal to the threshold and another has alpha threshold + 1.
C1_Witness ==
  /\ pc = "clusters"
  /\ \E g \in Visited : PixelAt(g[1], g[2]).a = opt.alphaThreshold
  /\ \E g \in Visited : PixelAt(g[1], g[2]).a = opt.alphaThreshold + 1
  /\ n < Cardinality(Visited)

\* The 5-bit quantisation level of an 8-bit channel, floor(value*32/256),
\* and the bucket of a pixel.
QuantLevel(v) == (v * 32) \div 256
Bucket(p) == <<QuantLevel(p.r), QuantLevel(p.g), QuantLevel(p.b)>>

\* C2: the sampler emits one sample per non-empty quantisation bucket of
\* the accepted pixels, with channels level/31 (two accepted pixels of one
\* bucket give one sample).
C2_OneSamplePerBucket ==
  pc = "clusters" =>
    /\ n = Cardinality({Bucket(PixelAt(g[1], g[2])) : g \in Accepted})
    /\ \A i \in 0..(n - 1) : \E g \in Accepted :
         LET bk == Bucket(PixelAt(g[1], g[2]))
         IN /\ samples[i].r * 31 = bk[1] * Q
            /\ samples[i].g * 31 = bk[2] * Q
            /\ samples[i].b * 31 = bk[3] * Q

\* The samples all have one colour.
SolidSamples == n >= 1 /\ \A i \in 0..(n - 1) : samples[i] = samples[0]

\* C3: when all sampled pixels have the same RGB and maxColors >= 1, the
\* result is exactly one aggregate, of area 1 and of the pixels' colour,
\* whatever the random draws were.
C3_SolidColour ==
  (pc = "done" /\ SolidSamples /\ opt.maxColors >= 1) =>
    /\ ret = 1
    /\ m = 1
    /\ RatEQ(acc[0].weight, Rat(1, 1))
    /\ acc[0].color = samples[0]

\* C3 witness: a solid image of several samples clustered with K >= 2 (the
\* empty clusters took samples from the full one) has been merged.
C3_Witness ==
  /\ pc = "done"
  /\ SolidSamples /\ n >= 2 /\ K >= 2 /\ opt.maxColors >= 2
  /\ \E c \in 0..(K - 1) : clusters[c].weight = 0
  /\ m = 1

\* C4: the all-white opaque 2x2 image under the default options prints one
\* aggregate: hex "#ffffff", red = green = blue = 255, lightness 1,
\* saturation 0, hue 0, area 1, whatever the random draws were.
C4_White2x2 ==
  (pc = "exit" /\ im = White2x2 /\ opt = DefaultOptions) =>
    /\ DOMAIN out = {0}
    /\ out[0].hex = "#ffffff"
    /\ out[0].red = 255 /\ out[0].green = 255 /\ out[0].blue = 255
    /\ RatEQ(out[0].lightness, Rat(1, 1))
    /\ RatEQ(out[0].saturation, Rat(0, 1))
    /\ RatEQ(out[0].hue, Rat(0, 1))
    /\ RatEQ(out[0].area, Rat(1, 1))

\* C4 witness: the white 2x2 image has been clustered with K = 4 and printed.
C4_Witness == pc = "exit" /\ im = White2x2 /\ opt = DefaultOptions /\ K = 4 /\ n = 4

Red == SampleOf(PxRed)
Blue == SampleOf(PxBlue)
CountOf(c) == Cardinality({i \in 0..(n - 1) : samples[i] = c})
HalfRedHalfBlue == n >= 2 /\ 2 * CountOf(Red) = n /\ 2 * CountOf(Blue) = n

\* distance is below the normalised RGB distance of colours a and b.
DistanceBelow(distance, a, b) ==
  /\ distance.n >= 0
  /\ 3 * distance.n * distance.n * Q * Q < rgb_dist2_raw(a, b) * distance.d * distance.d

\* C5: when half of the samples are pure red and half pure blue, distance
\* is below the red-blue distance, the HSL thresholds are the defaults and
\* maxColors >= 2, the result is exactly two aggregates, pure red (hue 0)
\* and pure blue (hue 2/3), each of area 1/2, whatever the random draws were.
C5_RedBlue ==
  (/\ pc = "done"
   /\ HalfRedHalfBlue
   /\ opt.maxColors >= 2
   /\ DistanceBelow(opt.distance, Red, Blue)
   /\ opt.satDist = DefaultSatDist /\ opt.lightDist = DefaultLightDist
   /\ opt.hueDist = DefaultHueDist) =>
    /\ m = 2
    /\ \E i, j \in {0, 1} :
         /\ i # j
         /\ acc[i].color = Red /\ RatEQ(acc[i].h, Rat(0, 1))
         /\ acc[j].color = Blue /\ RatEQ(acc[j].h, Rat(2, 3))
         /\ RatEQ(acc[i].weight, Rat(1, 2)) /\ RatEQ(acc[j].weight, Rat(1, 2))

\* C5 witness: kmeans_pp_init drew the same colour for both centres of a
\* red/blue sample set, and the run ended with two aggregates.
C5_Witness ==
  /\ pc = "done"
  /\ HalfRedHalfBlue
  /\ opt.maxColors >= 2
  /\ m = 2
  /\ it >= 2

RECURSIVE AreaSumTo(_)
AreaSumTo(j) ==
  IF j < 0 THEN Rat(0, 1)
  ELSE LET r == AreaSumTo(j - 1)
       IN Rat(r.n * acc[j].weight.d + acc[j].weight.n * r.d, r.d * acc[j].weight.d)

AreaSum == AreaSumTo(m - 1)
NoEmptyCluster == \A c \in 0..(K - 1) : clusters[c].weight > 0

\* C6: when extract_colors_core has returned, every aggregate's area is in
\* [0,1] and the areas sum to at most 1; the sum is exactly 1 when no
\* cluster was left with weight 0 by kmeans_run.
C6_AreaRange ==
  (pc = "done" /\ ret = 1) =>
    /\ \A j \in 0..(m - 1) :
         RatLE(Rat(0, 1), acc[j].weight) /\ RatLE(acc[j].weight, Rat(1, 1))
    /\ RatLE(AreaSum, Rat(1, 1))
    /\ (n > 0 /\ NoEmptyCluster) => RatEQ(AreaSum, Rat(1, 1))

\* C6 witness: two or more aggregates were returned from clusters none of
\* which was empty, one of them the result of a merge.
C6_Witness ==
  /\ pc = "done" /\ ret = 1
  /\ n > 0 /\ NoEmptyCluster
  /\ m >= 2 /\ m < K
  /\ RatEQ(AreaSum, Rat(1, 1))

\* The claimed range of rgb_to_hsl's results.
HslInRange(v) ==
  /\ RatLE(Rat(0, 1), v.s) /\ RatLE(v.s, Rat(1, 1))
  /\ RatLE(Rat(0, 1), v.l) /\ RatLE(v.l, Rat(1, 1))
  /\ RatLE(Rat(0, 1), v.h) /\ RatLT(v.h, Rat(1, 1))

\* C7 (as claimed): for every RGB triple of [0,1]^3 rgb_to_hsl returns
\* saturation and lightness in [0,1] and a hue in [0,1), never 1.0.
C7_HslRange == pc = "hsl_done" => HslInRange(hslOut)

DistinctColours == Cardinality({samples[i] : i \in 0..(n - 1)})

\* C8: when maxColors exceeds the number of distinct sample colours, every
\* aggregate in merge_colors' list has weight > 0 while the list is built,
\* and area > 0 once the weights are normalised.
C8_NoZeroWeight ==
  (n > 0 /\ opt.maxColors > DistinctColours) =>
    /\ pc = "merge_loop" => \A j \in 0..(m - 1) : acc[j].weight > 0
    /\ pc \in {"done", "exit"} => \A j \in 0..(m - 1) : RatLT(Rat(0, 1), acc[j].weight)

\* C8 witness: kmeans_run left a cluster empty whose centroid is no sample's
\* colour, and merge_colors has returned.
C8_Witness ==
  /\ pc = "done" /\ n > 0
  /\ opt.maxColors > DistinctColours
  /\ \E c \in 0..(K - 1) :
       /\ clusters[c].weight = 0
       /\ \A i \in 0..(n - 1) : samples[i] # clusters[c].color
  /\ m >= 2

\* C9 (as claimed): the areas of merge_colors' list never increase from one
\* aggregate to the next.
C9_AreasDescending ==
  pc = "done" => \A j \in 0..(m - 2) : RatLE(acc[j + 1].weight, acc[j].weight)

\* C9: merge_colors lists the aggregates in the order of their creation and
\* does not sort them again: an aggregate, when it is created, weighs no
\* more than any aggregate already in the list.
C9_CreationOrder ==
  [][(pc = "merge_loop" /\ m' = m + 1) =>
       \A j \in 0..(m - 1) : acc'[j].weight >= acc'[m].weight]_vars

\* C9 witness: a later aggregate outgrew an earlier one by merging.
C9_Witness == pc = "done" /\ m >= 2 /\ RatLT(acc[0].weight, acc[1].weight)

TwoPositiveClusters == K = 2 /\ clusters[0].weight > 0 /\ clusters[1].weight > 0
PairDist2 == rgb_dist2_raw(clusters[0].color, clusters[1].color)
PairHsl(c) == rgb_to_hsl(clusters[c].color.r, clusters[c].color.g, clusters[c].color.b)
\* The normalised RGB distance of the two clusters is below / above distance.
PairDistBelow ==
  opt.distance.n >= 0 /\
  PairDist2 * opt.distance.d * opt.distance.d < 3 * opt.distance.n * opt.distance.n * Q * Q
PairDistAbove ==
  opt.distance.n >= 0 /\
  PairDist2 * opt.distance.d * opt.distance.d > 3 * opt.distance.n * opt.distance.n * Q * Q
PairHslApart ==
  /\ RatLT(opt.hueDist, hue_arc_dist(PairHsl(0).h, PairHsl(1).h))
  /\ RatLT(opt.satDist, RatAbsDiff(PairHsl(0).s, PairHsl(1).s))

\* C10: merge_colors on two clusters of positive weight returns one
\* aggregate when their normalised RGB distance is below distance, and two
\* when hue and saturation differ by more than their thresholds and the
\* normalised RGB distance exceeds distance (distance >= 0).
C10_TwoClusters ==
  (pc = "done" /\ TwoPositiveClusters) =>
    /\ PairDistBelow => m = 1
    /\ (PairHslApart /\ PairDistAbove) => m = 2

\* C10 witness: two clusters apart in hue, saturation and RGB came out as
\* two aggregates.
C10_Witness ==
  /\ pc = "done" /\ TwoPositiveClusters
  /\ PairHslApart /\ PairDistAbove
  /\ m = 2

\* The call has a width or height that is not positive, or no pixels.
InvalidCall == im.width <= 0 \/ im.height <= 0 \/ im.rgba = NullPtr

\* C11: called with a width or height that is not positive, or a null
\* pixel pointer, extract_colors_core returns 0 without entering the
\* sampling loops and without assigning *outAgg or *outM.
C11_BadArgsRejected ==
  InvalidCall =>
    /\ pc \in {"entry", "done"}
    /\ pc = "done" => ret = 0
    /\ n = 0 /\ x = 0 /\ y = 0 /\ samples = Empty
    /\ stored = {} /\ outAgg = NullAgg /\ outM = 0

\* C11 witness: a call with height <= 0 has returned.
C11_Witness == pc = "done" /\ im.height <= 0 /\ im.width > 0 /\ ret = 0

\* C12: when the sampling loops accept no pixel, extract_colors_core
\* returns 1 with *outM = 0 and *outAgg = NULL, and kmeans_pp_init,
\* kmeans_run and merge_colors are never entered, whatever maxColors is.
C12_EmptySampleSet ==
  (~InvalidCall /\ n = 0) =>
    /\ pc \in {"entry", "sample", "done", "exit"}
    /\ K = 0 /\ clusters = Empty /\ it = 0 /\ assign = Empty
    /\ sorted = Empty /\ acc = Empty /\ m = 0
    /\ pc \in {"done", "exit"} =>
         /\ ret = 1
         /\ outM = 0 /\ outAgg = NullAgg /\ stored = {"outAgg", "outM"}

\* C12 witness: an image of several pixels, none above the alpha
\* threshold, with maxColors <= 0, has returned.
C12_Witness ==
  /\ pc = "done" /\ ret = 1 /\ n = 0
  /\ im.width * im.height >= 2
  /\ opt.maxColors <= 0

\* C13 (as claimed): once an allocation has failed, extract_colors_core
\* returns 0 and assigns no output list; it never returns 1.
C13_FailureReported ==
  (allocFailed # "none" /\ pc \in {"done", "exit"}) => (ret = 0 /\ stored = {})

\* A quotient whose divisor was not zero.
Defined(q) == q.d # 0

\* C14: no division of the pipeline has a zero divisor: the aggregates'
\* hue, saturation and lightness (rgb_to_hsl divides by d, maxv + minv or
\* 2 - maxv - minv) and areas are defined, every merge adds to a positive
\* weight, the areas are divided by a positive total, and rgb_to_hsl on any
\* triple of [0,1] returns defined values; so do the printed fields.
C14_NoZeroDivisor ==
  /\ \A j \in DOMAIN acc :
       /\ Defined(acc[j].h) /\ Defined(acc[j].s) /\ Defined(acc[j].l)
       /\ pc = "merge_loop" => acc[j].weight > 0
       /\ pc \in {"done", "exit"} => (Defined(acc[j].weight) /\ totalW > 0)
  /\ \A j \in DOMAIN out :
       /\ Defined(out[j].hue) /\ Defined(out[j].saturation)
       /\ Defined(out[j].lightness) /\ Defined(out[j].area)
  /\ pc = "hsl_done" =>
       (Defined(hslOut.h) /\ Defined(hslOut.s) /\ Defined(hslOut.l))

\* C14 witness: an image whose samples are all one grey (maxv = minv) has
\* been clustered into K > 1 clusters, merged and printed.
C14_Witness ==
  /\ pc = "exit" /\ K > 1 /\ m = 1
  /\ acc[0].color.r = acc[0].color.g /\ acc[0].color.g = acc[0].color.b
  /\ \E c \in 0..(K - 1) : clusters[c].weight = 0

\* min(maxColors, n), replaced by 1 when it is <= 0.
ExpectedK ==
  LET k0 == IF opt.maxColors < n THEN opt.maxColors ELSE n
  IN IF k0 <= 0 THEN 1 ELSE k0

\* The cells of g_out_buf: double g_out_buf[1 + EXTRACT_MAX_OUT_COLORS * 8].
OutBufCells == 0..(EXTRACT_MAX_OUT_COLORS * 8)

\* C15: K is min(maxColors, n), or 1 when that is <= 0; a call with
\* n >= 1 returns 1 <= m <= K aggregates.  Through the wasm entry point
\* maxColors is in 1..64, so m <= 64: pack_results_to_out stores the whole
\* list, inside g_out_buf, and g_out_buf[0] is m.
C15_ClusterCount ==
  /\ (n >= 1 /\ pc \notin {"entry", "sample", "clusters"}) => K = ExpectedK
  /\ (n >= 1 /\ pc \in {"done", "exit"} /\ ret = 1) => (1 <= m /\ m <= K /\ outM = m)
  /\ caller = "js" =>
       /\ opt.maxColors >= 1 /\ opt.maxColors <= EXTRACT_MAX_OUT_COLORS
       /\ outM <= EXTRACT_MAX_OUT_COLORS
       /\ pc = "exit" =>
            /\ g_out_buf[0] = outM
            /\ DOMAIN g_out_buf = 0..(8 * outM)
            /\ DOMAIN g_out_buf \subseteq OutBufCells

\* C15 witness: a wasm call with maxColors out of range (so 16) on three
\* samples has packed two or more aggregates.
C15_Witness ==
  /\ pc = "exit" /\ caller = "js"
  /\ opt.maxColors = DefaultMaxColors
  /\ n = 3 /\ K = 3
  /\ outM >= 2 /\ g_out_buf[0] = outM

\* C16: over any sequence of get_pixels_buffer calls g_pixels_cap never
\* decreases; a call with size <= g_pixels_cap changes neither global; a
\* call that has to grow either fails, returning 0 with both globals
\* unchanged, or installs the new buffer with capacity size; a non-zero
\* return value is the current buffer, of capacity at least size.
C16_PixelsBuffer ==
  [][/\ g_pixels_cap' >= g_pixels_cap
     /\ pixReq' <= g_pixels_cap =>
          (g_pixels_buf' = g_pixels_buf /\ g_pixels_cap' = g_pixels_cap
             /\ pixRet' = g_pixels_buf)
     /\ pixReq' > g_pixels_cap =>
          \/ (pixRet' = 0 /\ g_pixels_buf' = g_pixels_buf /\ g_pixels_cap' = g_pixels_cap)
          \/ (pixRet' # 0 /\ g_pixels_buf' = pixRet' /\ g_pixels_cap' = pixReq')
     /\ pixRet' # 0 => (pixRet' = g_pixels_buf' /\ g_pixels_cap' >= pixReq')]_vars

\* C16 witness: a call that had to grow an existing buffer failed and the
\* buffer is still there.
C16_Witness ==
  /\ pc = "pixels"
  /\ g_pixels_buf # 0 /\ g_pixels_cap > 0
  /\ pixReq > g_pixels_cap /\ pixRet = 0

\* The in-gamut scales are an initial segment of [0,1].
MonotoneGamut == gamutIn.t2 > gamutIn.t3

\* C17: find_gamut_safe_chroma returns C when C is in gamut.  Otherwise
\* the loop keeps 0 <= lo <= hi <= 1 with lo in gamut, hi out of gamut and
\* hi - lo = 2^-i, runs exactly 30 steps and returns C * lo, an in-gamut
\* chroma of [0, C]; when the in-gamut chromas are an initial segment, none
\* of them is C / 2^30 or more above the returned one.
C17_GamutSafeChroma ==
  /\ pc = "bisect" =>
       /\ 0 <= bisLo /\ bisLo <= bisHi /\ bisHi <= BisectUnit
       /\ bisI <= BisectSteps
       /\ (bisHi - bisLo) * Pow2(bisI) = BisectUnit
       /\ InGamut(gamutIn, bisLo) /\ ~InGamut(gamutIn, bisHi)
  /\ pc = "chroma_done" =>
       IF InGamut(gamutIn, BisectUnit)
         THEN bisRet = BisectUnit /\ bisI = 0
         ELSE /\ bisI = BisectSteps
              /\ bisRet = bisLo
              /\ 0 <= bisRet /\ bisRet <= BisectUnit
              /\ InGamut(gamutIn, bisRet)
              /\ MonotoneGamut => ~InGamut(gamutIn, bisRet + 1)

\* C17 witness: the 30 steps ended on a scale that is no multiple of 2^-29,
\* the greatest in gamut.
C17_Witness ==
  /\ pc = "chroma_done" /\ bisI = BisectSteps
  /\ MonotoneGamut
  /\ bisRet = gamutIn.t1 /\ bisRet % 2 = 1 /\ bisRet > 1

\* The stride the claim states: the least positive s with
\* s * s * pixels >= w * h when w * h > pixels > 0, and 1 otherwise.
ExpectedStep ==
  LET total == im.width * im.height
  IN IF total > opt.pixels /\ opt.pixels > 0
       THEN CHOOSE s \in 1..total :
              /\ s * s * opt.pixels >= total
              /\ \A t \in 1..(s - 1) : t * t * opt.pixels < total
       ELSE 1
\* The grid of that stride, and the grid points after (x, y) in row-major
\* order.
ExpectedGrid ==
  {g \in (0..(im.width - 1)) \X (0..(im.height - 1)) :
     g[1] % ExpectedStep = 0 /\ g[2] % ExpectedStep = 0}
GridAfter == {g \in ExpectedGrid : RowMajorBefore(<<x, y>>, g)}

\* C18: the stride is the least positive s with s*s*pixels >= w*h when
\* w*h > pixels > 0 and 1 otherwise (pixels <= 0 included); the loops start
\* at (0,0), every pixel they visit is a point of the grid x mod step = 0,
\* y mod step = 0 inside the image, each pass moves to the next grid point
\* in row-major order, and the loops end only after the last grid point.
C18_StrideGrid ==
  [][/\ (pc = "entry" /\ pc' = "sample") => (x' = 0 /\ y' = 0)
     /\ pc = "sample" =>
          /\ <<x, y>> \in ExpectedGrid
          /\ IF GridAfter = {}
               THEN pc' # "sample"
               ELSE /\ pc' = "sample"
                    /\ <<x', y'>> \in GridAfter
                    /\ \A g \in GridAfter : g = <<x', y'>> \/ RowMajorBefore(<<x', y'>>, g)]_vars

\* C18 witness: the loops ended on a 5x4 image sampled with stride 2 (six
\* grid points, two of them below the alpha threshold).
C18_Witness ==
  /\ pc = "clusters"
  /\ im.width = 5 /\ im.height = 4
  /\ ExpectedStep = 2 /\ Step = 2
  /\ Cardinality(ExpectedGrid) = 6
  /\ y = 4

\* The positions of kmeans_run's loop, and what an iteration can observe:
\* a sample whose assignment a step changed, a cluster left empty.
KmeansPcs == {"assign", "reset", "update"}
AssignmentMoved == \E i \in 0..(n - 1) : assign'[i] # assign[i]
SomeClusterEmpty == \E c \in 0..(K - 1) : clusters[c].weight = 0
\* The steps of the loop taken so far: three for each iteration done, and
\* those of the iteration under way.
LoopSteps(at, iter) ==
  3 * iter + (IF at = "reset" THEN 1 ELSE IF at = "update" THEN 2 ELSE 0)

\* C19: kmeans_run terminates, after at most 12 iterations: every step of
\* the loop adds one to a count of steps that never passes 3 * 12.  An
\* iteration is Assign, then Reset-Empty, then Update; changed is raised
\* by Assign exactly when a sample's assignment differs from the one it had
\* at the end of the previous iteration and by Reset-Empty exactly when a
\* recovery fired; the loop stops after Update when changed is not raised
\* or 12 iterations are done, and goes on otherwise.
C19_KmeansIterations ==
  [][/\ pc \in KmeansPcs =>
          /\ it < 12
          /\ LoopSteps(pc', it') = LoopSteps(pc, it) + 1
          /\ LoopSteps(pc', it') <= 3 * 12
     /\ pc' = "assign" => (pc = "pp_next" /\ it' = 0) \/ pc = "update"
     /\ pc = "assign" =>
          /\ pc' = "reset" /\ it' = it
          /\ changed' = 1 <=> AssignmentMoved
     /\ pc = "reset" =>
          /\ pc' = "update" /\ it' = it
          /\ changed' = 1 <=> (changed = 1 \/ SomeClusterEmpty)
          /\ AssignmentMoved => SomeClusterEmpty
     /\ pc = "update" =>
          /\ it' = it + 1 /\ it' <= 12
          /\ pc' = "assign" <=> (changed = 1 /\ it' < 12)
          /\ pc' # "assign" => pc' = "merge"]_vars

\* C19 witness: the loop left at the cap, every one of the 12 iterations
\* having changed something.
C19_Witness == pc = "merge" /\ it = 12 /\ changed = 1 /\ K >= 2

\* The members of cluster c under the assignment asg, and the sum of one
\* channel over them.
Members(asg, c) == {i \in 0..(n - 1) : asg[i] = c}
MemberSum(asg, c, ch) ==
  SumTo([i \in 0..(n - 1) |-> IF asg[i] = c THEN samples[i][ch] ELSE 0], n - 1)
\* The accumulators st = [assign, sr, sg, sb, w] agree with the assignment.
Accumulated(st) ==
  /\ \A c \in 0..(K - 1) :
       /\ st.w[c] = Cardinality(Members(st.assign, c))
       /\ st.w[c] >= 0
       /\ st.sr[c] = MemberSum(st.assign, c, "r")
       /\ st.sg[c] = MemberSum(st.assign, c, "g")
       /\ st.sb[c] = MemberSum(st.assign, c, "b")
  /\ SumTo(st.w, K - 1) = n
  /\ \A i \in 0..(n - 1) : st.assign[i] \in 0..(K - 1)
RunState ==
  [assign |-> assign, sr |-> sr, sg |-> sg, sb |-> sb,
   w |-> [c \in 0..(K - 1) |-> clusters[c].weight], changed |-> changed]
\* The accumulators after the empty-cluster loop has passed clusters 0..last-1.
RECURSIVE ResetUpTo(_, _, _)
ResetUpTo(st, c, last) ==
  IF c >= last THEN st ELSE ResetUpTo(ResetOne(st, c), c + 1, last)

\* C20: after Assign, after every pass of the empty-cluster loop and after
\* Reset-Empty, each cluster's weight is the number of samples assigned to
\* it and is not negative, its sr, sg, sb are the channel sums of those
\* samples, and the weights add up to n.
C20_Accumulators ==
  /\ pc = "reset" => \A last \in 0..K : Accumulated(ResetUpTo(RunState, 0, last))
  /\ pc = "update" => Accumulated(RunState)

\* C20 witness: Reset-Empty is over and a sample is held by a cluster that
\* is not its nearest: a recovery took it from a cluster it left with
\* other samples.
C20_Witness ==
  /\ pc = "update" /\ K >= 2 /\ n >= 3
  /\ \E i \in 0..(n - 1) :
       /\ assign[i] # Nearest(samples[i], clusters).bi
       /\ clusters[Nearest(samples[i], clusters).bi].weight > 0

\* The clusters Assign left empty, the globally farthest sample (the first
\* of greatest bestd2) and the cluster that holds it.
EmptyClusters == {c \in 0..(K - 1) : clusters[c].weight = 0}
Farthest ==
  CHOOSE i \in 0..(n - 1) :
    /\ \A j \in 0..(n - 1) : bestd2[j] <= bestd2[i]
    /\ \A j \in 0..(i - 1) : bestd2[j] < bestd2[i]
Donor == assign[Farthest]
MinOf(S) == CHOOSE a \in S : \A b \in S : a <= b
MaxOf(S) == CHOOSE a \in S : \A b \in S : b <= a
\* The clusters that take the farthest sample in turn: the empty ones, and
\* the donor when the sample was its only one and its turn comes later.
Takers ==
  EmptyClusters \cup
    (IF clusters[Donor].weight = 1 /\ Donor > MinOf(EmptyClusters) THEN {Donor} ELSE {})

\* C21 as stated: with n >= K no cluster has zero weight after Reset-Empty.
C21_NoEmptyAfterReset ==
  (pc = "update" /\ n >= K) => \A c \in 0..(K - 1) : clusters[c].weight > 0

\* C21 (amended): every cluster that has zero weight when the empty-cluster
\* loop reaches it takes the globally farthest sample, the same sample for
\* all of them (bestd2 is not refreshed): after the step the last taker
\* holds it with weight 1, every other sample is where Assign put it, and
\* the other takers are empty, also when n >= K.
C21_Reseed ==
  [][pc = "reset" =>
       IF EmptyClusters = {}
         THEN assign' = assign /\ clusters' = clusters
         ELSE /\ \A i \in 0..(n - 1) : i # Farthest => assign'[i] = assign[i]
              /\ assign'[Farthest] = MaxOf(Takers)
              /\ clusters'[MaxOf(Takers)].weight = 1
              /\ \A c \in Takers \ {MaxOf(Takers)} : clusters'[c].weight = 0
              /\ \A c \in (0..(K - 1)) \ (Takers \cup {Donor}) :
                   clusters'[c].weight = clusters[c].weight
              /\ Donor \notin Takers => clusters'[Donor].weight = clusters[Donor].weight - 1]_vars

\* C21 witness: three samples, three clusters; after Reset-Empty cluster 2
\* holds the farthest sample and cluster 1, empty too, is still empty.
C21_Witness ==
  /\ pc = "update" /\ K = 3 /\ n = 3
  /\ clusters[0].weight = 2 /\ clusters[1].weight = 0 /\ clusters[2].weight = 1

\* Centroid c of the list cl is a nearest one of sample i, and no centroid
\* of lower index is as near.
NearestLowest(cl, i, c) ==
  /\ \A d \in 0..(K - 1) :
       rgb_dist2_raw(samples[i], cl[c].color) <= rgb_dist2_raw(samples[i], cl[d].color)
  /\ \A d \in 0..(c - 1) :
       rgb_dist2_raw(samples[i], cl[c].color) < rgb_dist2_raw(samples[i], cl[d].color)
\* The centroid of cluster c of the list cl is the mean of its samples.
IsMean(cl, c) ==
  /\ cl[c].color.r * cl[c].weight = MemberSum(assign, c, "r")
  /\ cl[c].color.g * cl[c].weight = MemberSum(assign, c, "g")
  /\ cl[c].color.b * cl[c].weight = MemberSum(assign, c, "b")

\* C22: when kmeans_run leaves the loop before the 12th iteration, every
\* sample is assigned to the lowest-index centroid of least squared RGB
\* distance among the final centroids, every cluster of weight > 0 has the
\* mean of its samples as centroid, and a cluster of weight 0 has the
\* centroid it had before the iteration.
C22_StablePartition ==
  [][(pc = "update" /\ pc' = "merge" /\ it' < 12) =>
       /\ \A i \in 0..(n - 1) :
            assign'[i] \in 0..(K - 1) /\ NearestLowest(clusters', i, assign'[i])
       /\ \A c \in 0..(K - 1) :
            /\ clusters'[c].weight = Cardinality(Members(assign', c))
            /\ clusters'[c].weight > 0 => IsMean(clusters', c)
            /\ clusters'[c].weight = 0 => clusters'[c].color = clusters[c].color]_vars

\* C22 witness: the loop was left before the cap with two clusters, one of
\* them of two samples of different colours.
C22_Witness ==
  /\ pc = "merge" /\ it < 12 /\ K = 2 /\ changed = 0
  /\ \E c \in 0..(K - 1) :
       /\ clusters[c].weight = 2
       /\ \A i \in 0..(n - 1) : samples[i] # clusters[c].color

\* The cluster the merge loop is about to take, its HSL, and the aggregates
\* that accept it.
MergeCand == sorted[mi]
MergeCandHsl == rgb_to_hsl(MergeCand.color.r, MergeCand.color.g, MergeCand.color.b)
Accepting == {j \in 0..(m - 1) : MergeTest(MergeCand.color, MergeCandHsl, acc[j], opt)}
CachedHsl(a) == [h |-> a.h, s |-> a.s, l |-> a.l]

\* C23: the clusters are taken in descending weight; a cluster of weight 0
\* changes nothing; any other is merged into the lowest-index aggregate
\* that accepts it, tested on the aggregate's merged centroid and the HSL
\* recomputed from it, and is appended at the end when none accepts it;
\* no other aggregate changes, none is removed or moved.
C23_FirstAccepting ==
  [][pc = "merge_loop" =>
       /\ \A i \in 0..(K - 2) : sorted[i].weight >= sorted[i + 1].weight
       /\ \A j \in 0..(m - 1) : CachedHsl(acc[j]) = rgb_to_hsl(acc[j].color.r, acc[j].color.g, acc[j].color.b)
       /\ DOMAIN acc' = 0..(m' - 1)
       /\ pc' = "done" =>
            /\ mi = K /\ m' = m
            /\ \A j \in 0..(m - 1) : acc'[j].color = acc[j].color
       /\ pc' = "merge_loop" =>
            /\ mi < K /\ mi' = mi + 1 /\ sorted' = sorted
            /\ IF MergeCand.weight <= 0 THEN acc' = acc /\ m' = m
               ELSE IF Accepting = {}
                 THEN /\ m' = m + 1
                      /\ acc'[m].color = MergeCand.color /\ acc'[m].weight = MergeCand.weight
                      /\ CachedHsl(acc'[m]) = MergeCandHsl
                      /\ \A j \in 0..(m - 1) : acc'[j] = acc[j]
                 ELSE /\ m' = m
                      /\ acc'[MinOf(Accepting)].weight = acc[MinOf(Accepting)].weight + MergeCand.weight
                      /\ \A j \in (0..(m - 1)) \ {MinOf(Accepting)} : acc'[j] = acc[j]]_vars

\* C23 witness: the cluster about to be taken is accepted by aggregate 0
\* and by aggregate 1, and is nearer to aggregate 1.
C23_Witness ==
  /\ pc = "merge_loop" /\ mi < K /\ m = 2
  /\ MergeCand.weight > 0
  /\ Accepting = {0, 1}
  /\ rgb_dist2_raw(MergeCand.color, acc[1].color) < rgb_dist2_raw(MergeCand.color, acc[0].color)

\* The RGB criterion as specified: the normalised Euclidean distance
\* sqrt(d2 / 3) of colours a and b is at most distance.
NormDistWithin(a, b, distance) ==
  /\ distance.n >= 0
  /\ rgb_dist2_raw(a, b) * distance.d * distance.d <= 3 * distance.n * distance.n * Q * Q
\* The HSL criterion as specified: the three differences strictly under
\* their thresholds.
HslWithin(hslA, hslB, options) ==
  /\ RatLT(hue_arc_dist(hslA.h, hslB.h), options.hueDist)
  /\ RatLT(RatAbsDiff(hslA.s, hslB.s), options.satDist)
  /\ RatLT(RatAbsDiff(hslA.l, hslB.l), options.lightDist)

\* C24: the second cluster taken is merged into the aggregate of the first
\* exactly when their normalised RGB distance is at most distance
\* (equality included), for a distance of any sign, or their hue,
\* saturation and lightness differences are all strictly under hueDist,
\* satDist and lightDist.
C24_TestAsSpecified ==
  [][(pc = "merge_loop" /\ pc' = "merge_loop" /\ m = 1) =>
       (m' = 1 <=> \/ NormDistWithin(MergeCand.color, acc[0].color, opt.distance)
                   \/ HslWithin(MergeCandHsl, CachedHsl(acc[0]), opt))]_vars

\* The colours of the samples, and those at a positive distance from every
\* centre chosen so far.
SampleColours == {samples[i] : i \in 0..(n - 1)}
FarColours == {samples[i] : i \in {j \in 0..(n - 1) : dist2[j] > 0}}

\* C25: every centre kmeans_pp_init chooses is the colour of a sample;
\* when the sum of the distances is positive, the centre chosen next is a
\* sample at a positive distance from the centres already chosen, whatever
\* the random draw; when the sum is zero it is any sample.
C25_SeedsApart ==
  [][/\ (pc = "clusters" /\ pc' = "pp_next") => clusters'[0].color \in SampleColours
     /\ (pc = "pp_next" /\ k' = k + 1) =>
          /\ clusters'[k].color \in SampleColours
          /\ \A c \in 0..(k - 1) : clusters'[c] = clusters[c]
          /\ SumTo(dist2, n - 1) > 0 => clusters'[k].color \in FarColours]_vars

\* The serial build's state after its Assign and Reset-Empty steps, from
\* the assignment pass recorded when the parallel loop was started.
SerialReset ==
  ResetFrom([assign |-> serial.assign, sr |-> serial.sr, sg |-> serial.sg, sb |-> serial.sb,
             w |-> serial.w, changed |-> serial.changed], 0)

\* C26: from the same assign[] and centroids, the OpenMP build ends its
\* parallel loop with the bestd2[] of the serial build's assignment pass,
\* and its serial phases leave the assign[], the weights, the sums and the
\* changed flag that the serial build has after its Reset-Empty step, the
\* centroids being untouched; the update and the exit test that follow
\* are the same code on the same values.
C26_BuildsAgree ==
  [][(pc = "omp_par" /\ pc' = "update") =>
       /\ bestd2 = serial.bestd2
       /\ assign' = SerialReset.assign
       /\ changed' = SerialReset.changed
       /\ sr' = SerialReset.sr /\ sg' = SerialReset.sg /\ sb' = SerialReset.sb
       /\ \A c \in 0..(K - 1) :
            /\ clusters'[c].weight = SerialReset.w[c]
            /\ clusters'[c].color = clusters[c].color]_vars

\* C26 witness: the OpenMP build is past an iteration in which a recovery
\* took a sample from a cluster that kept others.
C26_Witness ==
  /\ pc = "update" /\ serial = Empty /\ ompNext = Empty /\ it >= 1
  /\ K >= 2 /\ n >= 3
  /\ \E i \in 0..(n - 1) :
       /\ assign[i] # Nearest(samples[i], clusters).bi
       /\ clusters[Nearest(samples[i], clusters).bi].weight > 0

\* The threads whose chunk holds sample i.
OwnersOf(i) == {t \in 0..(OmpThreads - 1) : ChunkLo(t) <= i /\ i < ChunkHi(t)}

\* C27: in the parallel loop every step is one thread's pass on a sample
\* of its own chunk, which no other thread handles; it writes assign[i],
\* bestd2[i] and that thread's copy of changed_any and nothing else: the
\* samples, the centroids, the weights and the sums are not written before
\* the loop is over.  Whatever the order of the steps, the loop ends with
\* the assign[] and bestd2[] of the sequential pass and with copies of
\* changed_any whose disjunction is its changed flag.
C27_Interleavings ==
  [][pc = "omp_par" =>
       /\ \A c \in 0..(K - 1) :
            clusters[c].weight = 0 /\ sr[c] = 0 /\ sg[c] = 0 /\ sb[c] = 0
       /\ pc' = "omp_par" =>
            /\ UNCHANGED <<samples, n, K, clusters, sr, sg, sb, changed, it>>
            /\ \E t \in 0..(OmpThreads - 1) :
                 LET i == ompNext[t]
                 IN /\ OwnersOf(i) = {t}
                    /\ ompNext' = [ompNext EXCEPT ![t] = i + 1]
                    /\ \A j \in (0..(n - 1)) \ {i} :
                         assign'[j] = assign[j] /\ bestd2'[j] = bestd2[j]
                    /\ \A u \in (0..(OmpThreads - 1)) \ {t} : ompChanged'[u] = ompChanged[u]
       /\ pc' # "omp_par" =>
            /\ \A i \in 0..(n - 1) : Cardinality(OwnersOf(i)) = 1
            /\ assign = serial.assign
            /\ bestd2 = serial.bestd2
            /\ (\E t \in 0..(OmpThreads - 1) : ompChanged[t] = 1) <=> serial.changed = 1]_vars

\* C27 witness: in an iteration after the first, thread 1 has done its
\* chunk, moving a sample, while thread 0 is part way through its own and
\* has moved none.
C27_Witness ==
  /\ pc = "omp_par" /\ n = 3 /\ it >= 1
  /\ ompNext[0] = 1 /\ ompNext[1] = 3
  /\ ompChanged[0] = 0 /\ ompChanged[1] = 1

\* The grid points of a w x h image under stride s:
\* ceil(w / s) * ceil(h / s).
GridCount(w, h, s) == ((w + s - 1) \div s) * ((h + s - 1) \div s)

\* C28: a sample is written at an index below cap, the samples written
\* are never more than the grid points visited, and for every width,
\* height and stride from 1 up the grid has at most cap points.
C28_WithinCap ==
  [][/\ \A w \in 1..(StrideMaxSide + 1), h \in 1..(StrideMaxSide + 1),
          s \in 1..(StrideMaxSide + 2) : GridCount(w, h, s) <= CapOf(w, h, s)
     /\ pc = "sample" =>
          /\ n' <= GridCount(im.width, im.height, Step)
          /\ n' > n =>
               /\ n < CapOf(im.width, im.height, Step)
               /\ DOMAIN samples' = 0..n
               /\ DOMAIN samples' \subseteq 0..(CapOf(im.width, im.height, Step) - 1)]_vars

\* C28 witness: a 4x4 image sampled with stride 3, its four grid points
\* all opaque: samples[] of capacity 4 was filled to its last entry.
C28_Witness ==
  /\ pc = "clusters"
  /\ im.width = 4 /\ im.height = 4 /\ Step = 3
  /\ n = 4 /\ DOMAIN samples = 0..3

\* The merge test between two aggregates of the returned list, on their
\* final centroids and cached HSL values.
AggregatesClose(a, b) == MergeTest(a.color, CachedHsl(a), b, opt)

\* C29: when merge_colors has returned, no two distinct aggregates of its
\* list satisfy the merge test with each other.
C29_PairwiseDistinct ==
  (pc = "done" /\ ret = 1 /\ m >= 2) =>
    \A i \in 0..(m - 1), j \in 0..(m - 1) : i # j => ~AggregatesClose(acc[i], acc[j])

\* C30: after sb_init and any appends, whatever malloc and realloc
\* returned, no write went outside the block, and either data is NULL and
\* nothing was written, or len + 1 <= cap and the terminator is at
\* data[len].
C30_StrBufSafe ==
  pc = "sb" =>
    /\ ~strbuf.oob
    /\ \/ strbuf.data = SbNull /\ strbuf.nul = -1
       \/ strbuf.data # SbNull /\ strbuf.len + 1 <= strbuf.cap /\ strbuf.nul = strbuf.len

=============================================================================
